---- MODULE Spec2Model ----
(***************************************************************************)
(* A model of the musicclubbot gRPC server: the JWT login and the          *)
(* authentication / authorization pipeline in front of the handlers        *)
(* (grpc/auth.rs, grpc/middleware.rs, main.rs), and the song, concert and  *)
(* participation services with their stores and update-mask merges         *)
(* (grpc/song.rs, grpc/concert.rs, grpc/participation.rs).                 *)
(*                                                                         *)
(* Strings the code trims, splits, parses or formats are sequences of      *)
(* one-character strings, so that the conversions are computed.            *)
(***************************************************************************)
EXTENDS Integers, Sequences, FiniteSets, TLC

VARIABLES
    now,        \* the wall clock, in seconds (AuthServer::now_ts)
    ttl,        \* AuthServer.ttl, in seconds, fixed at start-up
    issued,     \* the tokens login_tg has handed out, each with the tg_id it was asked for
    concerts,   \* table concerts: id -> ConcertRecord
    concertSeq, \* the next value of the concerts id sequence
    songs,      \* table songs: id -> SongRecord
    songSeq,    \* the next value of the songs id sequence
    parts,      \* table song_participations: a set of ParticipationRecord
    svc,        \* the service the clients of this run call
    pending,    \* the update call between its store.get and its store.update:
                \* the record each goes on to write, and the mask it came with
    race,       \* two update_song calls side by side: what each has read and written
    hist,       \* what the callers have seen of a store: the identifiers its creates
                \* returned, those its deletes removed, and the last create with
                \* no write after it
    reply       \* the answer of the call that has just been served, until it is delivered

vars == <<now, ttl, issued, concerts, concertSeq, songs, songSeq, parts, svc,
          pending, race, hist, reply>>

\* the state of the login service
authVars == <<now, ttl, issued>>
\* the state of the song and participation stores, of their callers, and the
\* callers' history
songVars == <<songs, songSeq, parts, svc, pending, race, hist>>

-----------------------------------------------------------------------------
(* Bounds of the model.                                                    *)

\* the largest token lifetime the server is configured with
MaxTtl == 2
\* logins happen while the clock is at most this
MaxLoginAt == 1
\* at most this many tokens are handed out
MaxTokens == 2
\* each store hands out at most this many identifiers
MaxId == 1
\* an update mask names at most this many paths
MaxMask == 2
\* a store whose life is followed hands out at most this many identifiers
MaxRows == 3

-----------------------------------------------------------------------------
(* Strings.                                                                *)

Whitespace == {" "}

RECURSIVE trim_start(_)
trim_start(s) ==
    IF s # <<>> /\ s[1] \in Whitespace THEN trim_start(Tail(s)) ELSE s

RECURSIVE trim_end(_)
trim_end(s) ==
    IF s # <<>> /\ s[Len(s)] \in Whitespace
    THEN trim_end(SubSeq(s, 1, Len(s) - 1))
    ELSE s

\* str::trim
trim(s) == trim_end(trim_start(s))

DigitChars == <<"0", "1", "2", "3", "4", "5", "6", "7", "8", "9">>

IsDigit(c) == \E i \in 1..10 : DigitChars[i] = c

DigitValue(c) == (CHOOSE i \in 1..10 : DigitChars[i] = c) - 1

\* the characters of a visible-ASCII header value (HeaderValue::to_str succeeds)
IsAscii(s) == \A i \in 1..Len(s) : s[i] # "0x80"

RECURSIVE DigitsValue(_)
DigitsValue(s) ==
    IF s = <<>> THEN 0
    ELSE 10 * DigitsValue(SubSeq(s, 1, Len(s) - 1)) + DigitValue(s[Len(s)])

AllDigits(s) == s # <<>> /\ \A i \in 1..Len(s) : IsDigit(s[i])

\* u64::to_string
RECURSIVE to_string(_)
to_string(n) ==
    IF n < 10 THEN <<DigitChars[n + 1]>>
    ELSE to_string(n \div 10) \o <<DigitChars[(n % 10) + 1]>>

\* str::parse::<u64>: an optional "+", then digits; no sign "-", no blanks
parse_u64(s) ==
    LET digits == IF s # <<>> /\ s[1] = "+" THEN Tail(s) ELSE s
    IN  IF AllDigits(digits)
        THEN [ok |-> TRUE, value |-> DigitsValue(digits)]
        ELSE [ok |-> FALSE, value |-> 0]

\* str::parse::<i64>: an optional "+" or "-", then digits
parse_i64(s) ==
    LET signed == s # <<>> /\ s[1] \in {"+", "-"}
        digits == IF signed THEN Tail(s) ELSE s
    IN  IF AllDigits(digits)
        THEN [ok |-> TRUE,
              value |-> IF signed /\ s[1] = "-"
                        THEN 0 - DigitsValue(digits)
                        ELSE DigitsValue(digits)]
        ELSE [ok |-> FALSE, value |-> 0]

-----------------------------------------------------------------------------
(* Tokens: grpc/auth.rs.                                                   *)

\* ADMIN_IDS, given to AuthServer and to AdminOnlyMiddleware alike
AdminIds == {42}

\* the tg_id values clients log in with
TgIds == {0, 7, 42}

\* JWT_SECRET, the key of AuthServer and of AuthInterceptor
ServerKey == "secret"

\* jsonwebtoken's Validation::new: leeway, in seconds
Leeway == 60

NoClaims == [sub |-> 0, exp |-> 0, iat |-> 0, is_admin |-> FALSE]

\* a string that is no JWT
Garbage == [wellformed |-> FALSE, claims |-> NoClaims, sig |-> "none"]

\* sign with is_admin left at false
sign_never_admin(payload) ==
    [wellformed |-> TRUE,
     claims |-> [sub |-> payload,
                 iat |-> now,
                 exp |-> now + ttl,
                 is_admin |-> FALSE],
     sig |-> ServerKey]

\* AuthServer::sign, at the clock's time
sign(payload) ==
    [wellformed |-> TRUE,
     claims |-> [sub |-> payload,
                 iat |-> now,
                 exp |-> now + ttl,
                 is_admin |-> payload \in AdminIds],
     sig |-> ServerKey]

\* login_tg that hands no token to an administrator's tg_id
login_tg_admins_refused(tg_id) ==
    IF tg_id = 0 \/ tg_id \in AdminIds
    THEN [status |-> "InvalidArgument", token |-> Garbage]
    ELSE [status |-> "OK", token |-> sign(tg_id)]

\* login_tg without the check of tg_id
login_tg_zero_signed(tg_id) ==
    [status |-> "OK", token |-> sign(tg_id)]

\* AuthServer::login_tg
login_tg(tg_id) ==
    IF tg_id = 0
    THEN [status |-> "InvalidArgument", token |-> Garbage]
    ELSE [status |-> "OK", token |-> sign(tg_id)]

\* decode under a key other than the one sign uses
decode_other_key(token) ==
    IF token.wellformed /\ token.sig = "bot-token" /\ ~(token.claims.exp + Leeway < now)
    THEN [ok |-> TRUE, claims |-> token.claims]
    ELSE [ok |-> FALSE, claims |-> NoClaims]

\* decode with a revocation: a token is refused once a later one has been
\* issued for its subject
decode_latest_only(token) ==
    IF /\ token.wellformed /\ token.sig = ServerKey /\ ~(token.claims.exp + Leeway < now)
       /\ ~\E i \in issued : /\ i.token.claims.sub = token.claims.sub
                               /\ i.token.claims.iat > token.claims.iat
    THEN [ok |-> TRUE, claims |-> token.claims]
    ELSE [ok |-> FALSE, claims |-> NoClaims]

\* AuthInterceptor::decode: HS256 under the server's key, exp validated with
\* the default leeway (a token is expired when exp < now - leeway)
decode(token) ==
    IF token.wellformed /\ token.sig = ServerKey /\ ~(token.claims.exp + Leeway < now)
    THEN [ok |-> TRUE, claims |-> token.claims]
    ELSE [ok |-> FALSE, claims |-> NoClaims]

-----------------------------------------------------------------------------
(* Requests and the two layers in front of the handlers.                   *)

\* the path of a call: /<service>/<method>
LoginTgPath == <<"AuthService", "LoginTg">>
CreateConcertPath == <<"ConcertService", "CreateConcert">>
OtherPaths ==
    {<<"ConcertService", "GetConcert">>, <<"ConcertService", "ListConcerts">>,
     <<"ConcertService", "UpdateConcert">>, <<"ConcertService", "DeleteConcert">>,
     <<"SongService", "CreateSong">>, <<"ParticipationService", "CreateParticipation">>}

\* path.ends_with("/CreateConcert")
ends_with_CreateConcert(path) == path[Len(path)] = "CreateConcert"

NoAuthorization == [present |-> FALSE, ascii |-> TRUE, scheme |-> "", token |-> Garbage]

\* auth_header.strip_prefix("Bearer ").unwrap_or(auth_header): with another
\* scheme the whole header value is taken for the token
strip_prefix(header) ==
    IF header.scheme \in {"", "Bearer"}
    THEN header.token
    ELSE [header.token EXCEPT !.wellformed = FALSE]

\* intercept without the early return: the authorization header is demanded
\* on every path
intercept_every_path(req) ==
    IF ~req.authorization.present \/ ~req.authorization.ascii
    THEN [ok |-> FALSE, status |-> "Unauthenticated", req |-> req]
    ELSE LET claims == decode(strip_prefix(req.authorization))
         IN  IF ~claims.ok
             THEN [ok |-> FALSE, status |-> "Unauthenticated", req |-> req]
             ELSE [ok |-> TRUE, status |-> "OK",
                   req |-> [req EXCEPT !.x_user_id = <<to_string(claims.claims.sub)>>]]

\* intercept with headers_mut().append in place of insert: the verified id
\* comes after the values the caller sent
intercept_appends(req) ==
    IF ~ends_with_CreateConcert(req.path)
    THEN [ok |-> TRUE, status |-> "OK", req |-> req]
    ELSE IF ~req.authorization.present \/ ~req.authorization.ascii
    THEN [ok |-> FALSE, status |-> "Unauthenticated", req |-> req]
    ELSE LET claims == decode(strip_prefix(req.authorization))
         IN  IF ~claims.ok
             THEN [ok |-> FALSE, status |-> "Unauthenticated", req |-> req]
             ELSE [ok |-> TRUE, status |-> "OK",
                   req |-> [req EXCEPT !.x_user_id =
                                @ \o <<to_string(claims.claims.sub)>>]]

\* AuthInterceptor::intercept
intercept(req) ==
    IF ~ends_with_CreateConcert(req.path)
    THEN [ok |-> TRUE, status |-> "OK", req |-> req]
    ELSE IF ~req.authorization.present \/ ~req.authorization.ascii
    THEN [ok |-> FALSE, status |-> "Unauthenticated", req |-> req]
    ELSE LET claims == decode(strip_prefix(req.authorization))
         IN  IF ~claims.ok
             THEN [ok |-> FALSE, status |-> "Unauthenticated", req |-> req]
             ELSE [ok |-> TRUE, status |-> "OK",
                   req |-> [req EXCEPT !.x_user_id = <<to_string(claims.claims.sub)>>]]

\* headers().get("x-user-id") ... to_str().ok() ... parse::<u64>().ok()
user_id_of(req) ==
    IF req.x_user_id = <<>> \/ ~IsAscii(req.x_user_id[1])
    THEN [ok |-> FALSE, value |-> 0]
    ELSE parse_u64(req.x_user_id[1])

\* the middleware without the membership test: any parsed user id passes
AdminOnlyMiddleware_call_any_user(req) ==
    IF ends_with_CreateConcert(req.path)
    THEN LET user_id == user_id_of(req)
         IN  IF ~user_id.ok
             THEN [forward |-> FALSE, status |-> "PermissionDenied", user_id |-> user_id]
             ELSE [forward |-> TRUE, status |-> "OK", user_id |-> user_id]
    ELSE [forward |-> TRUE, status |-> "OK", user_id |-> [ok |-> FALSE, value |-> 0]]

\* the middleware that turns away a CreateConcert call without an
\* authorization header before it looks at x-user-id
AdminOnlyMiddleware_call_wants_header(req) ==
    IF ends_with_CreateConcert(req.path)
    THEN LET user_id == user_id_of(req)
         IN  IF ~req.authorization.present \/ ~user_id.ok \/ user_id.value \notin AdminIds
             THEN [forward |-> FALSE, status |-> "PermissionDenied", user_id |-> user_id]
             ELSE [forward |-> TRUE, status |-> "OK", user_id |-> user_id]
    ELSE [forward |-> TRUE, status |-> "OK", user_id |-> [ok |-> FALSE, value |-> 0]]

\* the middleware that lets a call without a readable user id through
AdminOnlyMiddleware_call_absent_passes(req) ==
    IF ends_with_CreateConcert(req.path)
    THEN LET user_id == user_id_of(req)
         IN  IF user_id.ok /\ user_id.value \notin AdminIds
             THEN [forward |-> FALSE, status |-> "PermissionDenied", user_id |-> user_id]
             ELSE [forward |-> TRUE, status |-> "OK", user_id |-> user_id]
    ELSE [forward |-> TRUE, status |-> "OK", user_id |-> [ok |-> FALSE, value |-> 0]]

\* AdminOnlyMiddleware::call
AdminOnlyMiddleware_call(req) ==
    IF ends_with_CreateConcert(req.path)
    THEN LET user_id == user_id_of(req)
         IN  IF ~user_id.ok \/ user_id.value \notin AdminIds
             THEN [forward |-> FALSE, status |-> "PermissionDenied", user_id |-> user_id]
             ELSE [forward |-> TRUE, status |-> "OK", user_id |-> user_id]
    ELSE [forward |-> TRUE, status |-> "OK", user_id |-> [ok |-> FALSE, value |-> 0]]

\* the two layers the other way round: the middleware first, then the
\* interceptor, then the service
Layers_admin_first(req) ==
    LET m == AdminOnlyMiddleware_call(req)
    IN  IF ~m.forward
        THEN [stages |-> <<"admin">>, forwarded |-> FALSE, status |-> m.status,
              req |-> req, user_id |-> m.user_id]
        ELSE LET a == intercept(req)
             IN  IF ~a.ok
                 THEN [stages |-> <<"admin", "intercept">>, forwarded |-> FALSE,
                       status |-> a.status, req |-> a.req, user_id |-> m.user_id]
                 ELSE [stages |-> <<"admin", "intercept", "handler">>, forwarded |-> TRUE,
                       status |-> "OK", req |-> a.req, user_id |-> m.user_id]

\* Server::builder().layer(RequestInterceptorLayer).layer(MiddlewareLayer):
\* the interceptor first, then the middleware, then the service
Layers(req) ==
    LET a == intercept(req)
    IN  IF ~a.ok
        THEN [stages |-> <<"intercept">>, forwarded |-> FALSE, status |-> a.status,
              req |-> a.req, user_id |-> [ok |-> FALSE, value |-> 0]]
        ELSE LET m == AdminOnlyMiddleware_call(a.req)
             IN  IF ~m.forward
                 THEN [stages |-> <<"intercept", "admin">>, forwarded |-> FALSE,
                       status |-> m.status, req |-> a.req, user_id |-> m.user_id]
                 ELSE [stages |-> <<"intercept", "admin", "handler">>, forwarded |-> TRUE,
                       status |-> "OK", req |-> a.req, user_id |-> m.user_id]

-----------------------------------------------------------------------------
(* What the three services share in shape: options, store errors, paging.  *)

None == [some |-> FALSE, v |-> <<>>]
Some(x) == [some |-> TRUE, v |-> x]

\* a history with nothing seen yet
NoHistory == [handed |-> <<>>, deleted |-> {}, created |-> None]

\* Option<prost_types::FieldMask>
NoMask == [some |-> FALSE, paths |-> <<>>]
Mask(paths) == [some |-> TRUE, paths |-> paths]

\* mask.map(|mask| mask.paths).unwrap_or_else(Vec::new)
paths_of(mask) == IF mask.some THEN mask.paths ELSE <<>>

\* what the persistence layer says when a statement fails (sqlx's err.to_string())
Diagnostics == {"connection reset", "deadlock detected"}

\* the outcome of one statement: "" when it runs, or the diagnostic of its failure
Failures == {""} \cup Diagnostics

DefaultPageSize == 100
MaxPageSize == 500

\* sanitize_page_size taking the default for negative page sizes only
sanitize_page_size_zero_kept(page_size) ==
    LET size == IF page_size < 0 THEN DefaultPageSize ELSE page_size
    IN  IF size < MaxPageSize THEN size ELSE MaxPageSize

\* sanitize_page_size
sanitize_page_size(page_size) ==
    LET size == IF page_size <= 0 THEN DefaultPageSize ELSE page_size
    IN  IF size < MaxPageSize THEN size ELSE MaxPageSize

\* parse_id turning away negative identifiers only
parse_id_zero_passes(name) ==
    LET parsed == parse_i64(trim(name))
    IN  IF ~parsed.ok \/ parsed.value < 0
        THEN [ok |-> FALSE, id |-> 0]
        ELSE [ok |-> TRUE, id |-> parsed.value]

\* parse_id (song.rs and concert.rs hold the same function)
parse_id(name) ==
    LET parsed == parse_i64(trim(name))
    IN  IF ~parsed.ok \/ parsed.value <= 0
        THEN [ok |-> FALSE, id |-> 0]
        ELSE [ok |-> TRUE, id |-> parsed.value]

\* map_store_error with one arm for every store error
map_store_error_all_internal(err) == "Internal"

\* map_store_error: the status code
map_store_error(err) == IF err = "NotFound" THEN "NotFound" ELSE "Internal"

\* map_store_error: the status message
store_error_message(what, err) ==
    IF err = "NotFound" THEN <<what, " not found">> ELSE <<"database error: ", err>>

\* the keys of a table in ascending order (ORDER BY id)
RECURSIVE Ascending(_)
Ascending(ids) ==
    IF ids = {} THEN <<>>
    ELSE LET least == CHOOSE i \in ids : \A j \in ids : i <= j
         IN  <<least>> \o Ascending(ids \ {least})

\* the elements of a sequence
Range(s) == {s[k] : k \in 1..Len(s)}

\* the first `limit` elements (LIMIT $1)
Limit(rows, limit) == SubSeq(rows, 1, IF Len(rows) < limit THEN Len(rows) ELSE limit)

-----------------------------------------------------------------------------
(* Concerts: grpc/concert.rs.                                              *)

SecondsPerDay == 86400
NanosPerSecond == 1000000000

\* Option<NaiveDate>: a date is its number of days since 1970-01-01
NoDate == [some |-> FALSE, day |-> 0]
Date(day) == [some |-> TRUE, day |-> day]

\* Option<Timestamp>
NoTimestamp == [some |-> FALSE, seconds |-> 0, nanos |-> 0]
Timestamp(seconds, nanos) == [some |-> TRUE, seconds |-> seconds, nanos |-> nanos]

\* timestamp_from_date a second short of midnight
timestamp_from_date_second_before(date) ==
    IF date.some THEN Timestamp(date.day * SecondsPerDay - 1, 0) ELSE NoTimestamp

\* timestamp_from_date: midnight UTC of the date
timestamp_from_date(date) ==
    IF date.some THEN Timestamp(date.day * SecondsPerDay, 0) ELSE NoTimestamp

\* date_from_timestamp: u32::try_from(nanos), then DateTime::from_timestamp
\* (no nanosecond of two seconds or more, a leap nanosecond only in a
\* minute's last second), then date_naive
date_from_timestamp(timestamp) ==
    IF ~timestamp.some THEN NoDate
    ELSE IF timestamp.nanos < 0 THEN NoDate
    ELSE IF timestamp.nanos >= 2 * NanosPerSecond THEN NoDate
    ELSE IF timestamp.nanos >= NanosPerSecond /\ timestamp.seconds % 60 # 59 THEN NoDate
    ELSE Date(timestamp.seconds \div SecondsPerDay)

NoConcert == [id |-> 0, name |-> <<>>, date |-> NoTimestamp]
NoConcertRecord == [id |-> 0, name |-> <<>>, date |-> NoDate]

\* record_to_concert
record_to_concert(row) ==
    [id |-> row.id, name |-> row.name, date |-> timestamp_from_date(row.date)]

\* PostgresConcertStore::create; without a date the column takes its default
ConcertStore_create(concert, fail, default) ==
    IF fail # ""
    THEN [err |-> fail, record |-> NoConcertRecord, table |-> concerts, seq |-> concertSeq]
    ELSE LET row == [id |-> concertSeq,
                     name |-> concert.name,
                     date |-> IF concert.date.some THEN concert.date ELSE default]
         IN  [err |-> "", record |-> row,
              table |-> [i \in DOMAIN concerts \cup {concertSeq} |->
                            IF i = concertSeq THEN row ELSE concerts[i]],
              seq |-> concertSeq + 1]

\* PostgresConcertStore::get
ConcertStore_get(id, fail) ==
    IF fail # "" THEN [err |-> fail, record |-> NoConcertRecord]
    ELSE IF id \notin DOMAIN concerts THEN [err |-> "NotFound", record |-> NoConcertRecord]
    ELSE [err |-> "", record |-> concerts[id]]

\* PostgresConcertStore::list
ConcertStore_list(limit, fail) ==
    IF fail # "" THEN [err |-> fail, rows |-> <<>>]
    ELSE LET ids == Ascending(DOMAIN concerts)
         IN  [err |-> "", rows |-> Limit([k \in 1..Len(ids) |-> concerts[ids[k]]], limit)]

\* an update that puts the row back when its id is no longer stored
ConcertStore_update_restores(concert, fail) ==
    IF fail # "" THEN [err |-> fail, record |-> NoConcertRecord, table |-> concerts]
    ELSE LET row == [id |-> concert.id, name |-> concert.name, date |-> concert.date]
         IN  [err |-> "", record |-> row,
              table |-> [i \in DOMAIN concerts \cup {concert.id} |->
                            IF i = concert.id THEN row ELSE concerts[i]]]

\* PostgresConcertStore::update
ConcertStore_update(concert, fail) ==
    IF fail # "" THEN [err |-> fail, record |-> NoConcertRecord, table |-> concerts]
    ELSE IF concert.id \notin DOMAIN concerts
    THEN [err |-> "NotFound", record |-> NoConcertRecord, table |-> concerts]
    ELSE LET row == [id |-> concert.id, name |-> concert.name, date |-> concert.date]
         IN  [err |-> "", record |-> row, table |-> [concerts EXCEPT ![concert.id] = row]]

\* a delete that does not look at rows_affected
ConcertStore_delete_rows_unchecked(id, fail) ==
    IF fail # "" THEN [err |-> fail, table |-> concerts]
    ELSE [err |-> "", table |-> [i \in DOMAIN concerts \ {id} |-> concerts[i]]]

\* PostgresConcertStore::delete
ConcertStore_delete(id, fail) ==
    IF fail # "" THEN [err |-> fail, table |-> concerts]
    ELSE IF id \notin DOMAIN concerts THEN [err |-> "NotFound", table |-> concerts]
    ELSE [err |-> "", table |-> [i \in DOMAIN concerts \ {id} |-> concerts[i]]]

\* the loop with a name that is added to the one already there
RECURSIVE apply_concert_paths_appends(_, _, _)
apply_concert_paths_appends(updated, incoming, paths) ==
    IF paths = <<>> THEN [ok |-> TRUE, updated |-> updated]
    ELSE IF paths[1] = "name"
    THEN apply_concert_paths_appends([updated EXCEPT !.name = @ \o incoming.name],
                                     incoming, Tail(paths))
    ELSE IF paths[1] = "date"
    THEN apply_concert_paths_appends([updated EXCEPT !.date = incoming.date],
                                     incoming, Tail(paths))
    ELSE [ok |-> FALSE, updated |-> NoConcert]

\* the loop of apply_concert_update_mask
RECURSIVE apply_concert_paths(_, _, _)
apply_concert_paths(updated, incoming, paths) ==
    IF paths = <<>> THEN [ok |-> TRUE, updated |-> updated]
    ELSE IF paths[1] = "name"
    THEN apply_concert_paths([updated EXCEPT !.name = incoming.name], incoming, Tail(paths))
    ELSE IF paths[1] = "date"
    THEN apply_concert_paths([updated EXCEPT !.date = incoming.date], incoming, Tail(paths))
    ELSE [ok |-> FALSE, updated |-> NoConcert]

\* the merge with a full replace that keeps the stored date when the payload
\* has none
apply_concert_update_mask_keeps_date(existing, incoming, mask) ==
    LET updated == record_to_concert(existing)
        paths == paths_of(mask)
    IN  IF paths = <<>>
        THEN [ok |-> TRUE,
              updated |-> [updated EXCEPT
                              !.name = incoming.name,
                              !.date = IF incoming.date.some THEN incoming.date ELSE @]]
        ELSE apply_concert_paths(updated, incoming, paths)

\* apply_concert_update_mask
apply_concert_update_mask(existing, incoming, mask) ==
    LET updated == record_to_concert(existing)
        paths == paths_of(mask)
    IN  IF paths = <<>>
        THEN [ok |-> TRUE,
              updated |-> [updated EXCEPT !.name = incoming.name, !.date = incoming.date]]
        ELSE apply_concert_paths(updated, incoming, paths)

\* what a handler hands back: the status, the store operations it invoked,
\* the response body, and the table and sequence as it leaves them
ConcertResult(status, message, calls, body, table, seq) ==
    [status |-> status, message |-> message, calls |-> calls, body |-> body,
     table |-> table, seq |-> seq]

ConcertError(status, message, calls) ==
    ConcertResult(status, message, calls, NoConcert, concerts, concertSeq)

\* ConcertServer::create_concert
create_concert(concert, fail, default) ==
    IF ~concert.some
    THEN ConcertError("InvalidArgument", <<"create_concert requires concert payload">>, <<>>)
    ELSE IF trim(concert.v.name) = <<>>
    THEN ConcertError("InvalidArgument", <<"concert name is required">>, <<>>)
    ELSE LET record == [id |-> 0, name |-> concert.v.name,
                        date |-> date_from_timestamp(concert.v.date)]
             r == ConcertStore_create(record, fail, default)
         IN  IF r.err # ""
             THEN ConcertError(map_store_error(r.err),
                               store_error_message("concert", r.err), <<"create">>)
             ELSE ConcertResult("OK", <<>>, <<"create">>, record_to_concert(r.record),
                                r.table, r.seq)

\* ConcertServer::get_concert
get_concert(name, fail) ==
    LET id == parse_id(name)
    IN  IF ~id.ok THEN ConcertError("InvalidArgument", <<"invalid id">>, <<>>)
        ELSE LET r == ConcertStore_get(id.id, fail)
             IN  IF r.err # ""
                 THEN ConcertError(map_store_error(r.err),
                                   store_error_message("concert", r.err), <<"get">>)
                 ELSE ConcertResult("OK", <<>>, <<"get">>, record_to_concert(r.record),
                                    concerts, concertSeq)

\* ConcertServer::list_concerts
list_concerts(page_size, fail) ==
    LET r == ConcertStore_list(sanitize_page_size(page_size), fail)
    IN  IF r.err # ""
        THEN ConcertError(map_store_error(r.err),
                          store_error_message("concert", r.err), <<"list">>)
        ELSE ConcertResult("OK", <<>>, <<"list">>,
                           [k \in 1..Len(r.rows) |-> record_to_concert(r.rows[k])],
                           concerts, concertSeq)

\* ConcertServer::update_concert, up to its store.update: the payload and id
\* checks, store.get, the merge and the name check. `record` is what it goes
\* on to write when `pending` holds.
update_concert_get(concert, mask, fail) ==
    LET stop(status, message, calls) ==
            [pending |-> FALSE, record |-> NoConcertRecord,
             result |-> ConcertError(status, message, calls)]
    IN  IF ~concert.some
        THEN stop("InvalidArgument", <<"update_concert requires concert payload">>, <<>>)
        ELSE IF concert.v.id = 0
        THEN stop("InvalidArgument", <<"concert id is required">>, <<>>)
        ELSE LET existing == ConcertStore_get(concert.v.id, fail)
             IN  IF existing.err # ""
                 THEN stop(map_store_error(existing.err),
                           store_error_message("concert", existing.err), <<"get">>)
                 ELSE LET merged == apply_concert_update_mask(existing.record, concert.v, mask)
                      IN  IF ~merged.ok
                          THEN stop("InvalidArgument", <<"unsupported update_mask path">>,
                                    <<"get">>)
                          ELSE IF trim(merged.updated.name) = <<>>
                          THEN stop("InvalidArgument", <<"concert name is required">>,
                                    <<"get">>)
                          ELSE [pending |-> TRUE,
                                record |-> [id |-> concert.v.id,
                                            name |-> merged.updated.name,
                                            date |-> date_from_timestamp(merged.updated.date)],
                                result |-> ConcertError("OK", <<>>, <<"get">>)]

\* ConcertServer::update_concert, from its store.update on
update_concert_update(record, fail) ==
    LET r == ConcertStore_update(record, fail)
    IN  IF r.err # ""
        THEN ConcertError(map_store_error(r.err),
                          store_error_message("concert", r.err), <<"get", "update">>)
        ELSE ConcertResult("OK", <<>>, <<"get", "update">>, record_to_concert(r.record),
                           r.table, concertSeq)

\* ConcertServer::delete_concert
delete_concert(name, fail) ==
    LET id == parse_id(name)
    IN  IF ~id.ok THEN ConcertError("InvalidArgument", <<"invalid id">>, <<>>)
        ELSE LET r == ConcertStore_delete(id.id, fail)
             IN  IF r.err # ""
                 THEN ConcertError(map_store_error(r.err),
                                   store_error_message("concert", r.err), <<"delete">>)
                 ELSE ConcertResult("OK", <<>>, <<"delete">>, NoConcert, r.table, concertSeq)


-----------------------------------------------------------------------------
(* Songs: grpc/song.rs.                                                    *)

NoSong == [id |-> 0, title |-> <<>>, description |-> <<>>, link |-> <<>>]
NoSongRecord == [id |-> 0, title |-> <<>>, description |-> None, link |-> None]

\* empty_to_none without the trim: None for the empty string alone
empty_to_none_untrimmed(value) == IF value = <<>> THEN None ELSE Some(value)

\* empty_to_none: None for a blank string, else the string as it came
empty_to_none(value) == IF trim(value) = <<>> THEN None ELSE Some(value)

\* Option<String>::unwrap_or_default
unwrap_or_default(option) == IF option.some THEN option.v ELSE <<>>

\* record_to_song
record_to_song(record) ==
    [id |-> record.id,
     title |-> record.title,
     description |-> unwrap_or_default(record.description),
     link |-> unwrap_or_default(record.link)]

\* a create that numbers the row one past the largest stored id
SongStore_create_after_largest(song, fail) ==
    IF fail # ""
    THEN [err |-> fail, record |-> NoSongRecord, table |-> songs, seq |-> songSeq]
    ELSE LET largest == IF DOMAIN songs = {} THEN 0
                        ELSE CHOOSE i \in DOMAIN songs : \A j \in DOMAIN songs : j <= i
             row == [id |-> largest + 1, title |-> song.title,
                     description |-> song.description, link |-> song.link]
         IN  [err |-> "", record |-> row,
              table |-> [i \in DOMAIN songs \cup {row.id} |->
                            IF i = row.id THEN row ELSE songs[i]],
              seq |-> songSeq + 1]

\* PostgresSongStore::create: the id column takes the next value of the
\* table's sequence (as MockSongStore::create, next_id.fetch_add(1))
SongStore_create(song, fail) ==
    IF fail # ""
    THEN [err |-> fail, record |-> NoSongRecord, table |-> songs, seq |-> songSeq]
    ELSE LET row == [id |-> songSeq, title |-> song.title,
                     description |-> song.description, link |-> song.link]
         IN  [err |-> "", record |-> row,
              table |-> [i \in DOMAIN songs \cup {songSeq} |->
                            IF i = songSeq THEN row ELSE songs[i]],
              seq |-> songSeq + 1]

\* PostgresSongStore::get
SongStore_get(id, fail) ==
    IF fail # "" THEN [err |-> fail, record |-> NoSongRecord]
    ELSE IF id \notin DOMAIN songs THEN [err |-> "NotFound", record |-> NoSongRecord]
    ELSE [err |-> "", record |-> songs[id]]

\* PostgresSongStore::list
SongStore_list(limit, fail) ==
    IF fail # "" THEN [err |-> fail, rows |-> <<>>]
    ELSE LET ids == Ascending(DOMAIN songs)
         IN  [err |-> "", rows |-> Limit([k \in 1..Len(ids) |-> songs[ids[k]]], limit)]

\* an update that inserts the row when the id is not stored
SongStore_update_upsert(song, fail) ==
    IF fail # "" THEN [err |-> fail, record |-> NoSongRecord, table |-> songs]
    ELSE LET row == [id |-> song.id, title |-> song.title,
                     description |-> song.description, link |-> song.link]
         IN  [err |-> "", record |-> row,
              table |-> [i \in DOMAIN songs \cup {song.id} |->
                            IF i = song.id THEN row ELSE songs[i]]]

\* an update that sets the title column alone
SongStore_update_title_only(song, fail) ==
    IF fail # "" THEN [err |-> fail, record |-> NoSongRecord, table |-> songs]
    ELSE IF song.id \notin DOMAIN songs
    THEN [err |-> "NotFound", record |-> NoSongRecord, table |-> songs]
    ELSE LET row == [songs[song.id] EXCEPT !.title = song.title]
         IN  [err |-> "", record |-> row, table |-> [songs EXCEPT ![song.id] = row]]

\* PostgresSongStore::update
SongStore_update(song, fail) ==
    IF fail # "" THEN [err |-> fail, record |-> NoSongRecord, table |-> songs]
    ELSE IF song.id \notin DOMAIN songs
    THEN [err |-> "NotFound", record |-> NoSongRecord, table |-> songs]
    ELSE LET row == [id |-> song.id, title |-> song.title,
                     description |-> song.description, link |-> song.link]
         IN  [err |-> "", record |-> row, table |-> [songs EXCEPT ![song.id] = row]]

\* a delete whose WHERE clause takes every id up to the one asked for
SongStore_delete_up_to(id, fail) ==
    IF fail # "" THEN [err |-> fail, table |-> songs]
    ELSE IF id \notin DOMAIN songs THEN [err |-> "NotFound", table |-> songs]
    ELSE [err |-> "", table |-> [i \in {j \in DOMAIN songs : j > id} |-> songs[i]]]

\* PostgresSongStore::delete
SongStore_delete(id, fail) ==
    IF fail # "" THEN [err |-> fail, table |-> songs]
    ELSE IF id \notin DOMAIN songs THEN [err |-> "NotFound", table |-> songs]
    ELSE [err |-> "", table |-> [i \in DOMAIN songs \ {id} |-> songs[i]]]

\* the loop with "title" falling through to "description"
RECURSIVE apply_song_paths_fallthrough(_, _, _)
apply_song_paths_fallthrough(updated, incoming, paths) ==
    IF paths = <<>> THEN [ok |-> TRUE, updated |-> updated]
    ELSE IF paths[1] = "title"
    THEN apply_song_paths_fallthrough(
             [updated EXCEPT !.title = incoming.title,
                             !.description = incoming.description],
             incoming, Tail(paths))
    ELSE IF paths[1] = "description"
    THEN apply_song_paths_fallthrough([updated EXCEPT !.description = incoming.description],
                                      incoming, Tail(paths))
    ELSE IF paths[1] = "link"
    THEN apply_song_paths_fallthrough([updated EXCEPT !.link = incoming.link],
                                      incoming, Tail(paths))
    ELSE [ok |-> FALSE, updated |-> NoSong]

\* the loop with names it does not know passed over
RECURSIVE apply_song_paths_lenient(_, _, _)
apply_song_paths_lenient(updated, incoming, paths) ==
    IF paths = <<>> THEN [ok |-> TRUE, updated |-> updated]
    ELSE IF paths[1] = "title"
    THEN apply_song_paths_lenient([updated EXCEPT !.title = incoming.title],
                                  incoming, Tail(paths))
    ELSE IF paths[1] = "description"
    THEN apply_song_paths_lenient([updated EXCEPT !.description = incoming.description],
                                  incoming, Tail(paths))
    ELSE IF paths[1] = "link"
    THEN apply_song_paths_lenient([updated EXCEPT !.link = incoming.link],
                                  incoming, Tail(paths))
    ELSE apply_song_paths_lenient(updated, incoming, Tail(paths))

\* the loop of apply_song_update_mask
RECURSIVE apply_song_paths(_, _, _)
apply_song_paths(updated, incoming, paths) ==
    IF paths = <<>> THEN [ok |-> TRUE, updated |-> updated]
    ELSE IF paths[1] = "title"
    THEN apply_song_paths([updated EXCEPT !.title = incoming.title], incoming, Tail(paths))
    ELSE IF paths[1] = "description"
    THEN apply_song_paths([updated EXCEPT !.description = incoming.description],
                          incoming, Tail(paths))
    ELSE IF paths[1] = "link"
    THEN apply_song_paths([updated EXCEPT !.link = incoming.link], incoming, Tail(paths))
    ELSE [ok |-> FALSE, updated |-> NoSong]

\* the merge that stops after the first path of the mask
apply_song_update_mask_first_path(existing, incoming, mask) ==
    LET updated == record_to_song(existing)
        paths == paths_of(mask)
    IN  IF paths = <<>>
        THEN [ok |-> TRUE,
              updated |-> [updated EXCEPT !.title = incoming.title,
                                          !.description = incoming.description,
                                          !.link = incoming.link]]
        ELSE apply_song_paths(updated, incoming, <<paths[1]>>)

\* apply_song_update_mask
apply_song_update_mask(existing, incoming, mask) ==
    LET updated == record_to_song(existing)
        paths == paths_of(mask)
    IN  IF paths = <<>>
        THEN [ok |-> TRUE,
              updated |-> [updated EXCEPT !.title = incoming.title,
                                          !.description = incoming.description,
                                          !.link = incoming.link]]
        ELSE apply_song_paths(updated, incoming, paths)

\* what a handler hands back: the status, the store operations it invoked,
\* the response body, and the table and sequence as it leaves them
SongResult(status, message, calls, body, table, seq) ==
    [status |-> status, message |-> message, calls |-> calls, body |-> body,
     table |-> table, seq |-> seq]

SongError(status, message, calls) ==
    SongResult(status, message, calls, NoSong, songs, songSeq)

\* create_song without the check of the title
create_song_title_unchecked(song, fail) ==
    IF ~song.some
    THEN SongError("InvalidArgument", <<"create_song requires song payload">>, <<>>)
    ELSE LET record == [id |-> 0, title |-> song.v.title,
                        description |-> empty_to_none(song.v.description),
                        link |-> empty_to_none(song.v.link)]
             r == SongStore_create(record, fail)
         IN  IF r.err # ""
             THEN SongError(map_store_error(r.err),
                            store_error_message("song", r.err), <<"create">>)
             ELSE SongResult("OK", <<>>, <<"create">>, record_to_song(r.record),
                             r.table, r.seq)

\* SongServer::create_song
create_song(song, fail) ==
    IF ~song.some
    THEN SongError("InvalidArgument", <<"create_song requires song payload">>, <<>>)
    ELSE IF trim(song.v.title) = <<>>
    THEN SongError("InvalidArgument", <<"song title is required">>, <<>>)
    ELSE LET record == [id |-> 0, title |-> song.v.title,
                        description |-> empty_to_none(song.v.description),
                        link |-> empty_to_none(song.v.link)]
             r == SongStore_create(record, fail)
         IN  IF r.err # ""
             THEN SongError(map_store_error(r.err),
                            store_error_message("song", r.err), <<"create">>)
             ELSE SongResult("OK", <<>>, <<"create">>, record_to_song(r.record),
                             r.table, r.seq)

\* SongServer::get_song
get_song(name, fail) ==
    LET id == parse_id(name)
    IN  IF ~id.ok THEN SongError("InvalidArgument", <<"invalid id">>, <<>>)
        ELSE LET r == SongStore_get(id.id, fail)
             IN  IF r.err # ""
                 THEN SongError(map_store_error(r.err),
                                store_error_message("song", r.err), <<"get">>)
                 ELSE SongResult("OK", <<>>, <<"get">>, record_to_song(r.record),
                                 songs, songSeq)

\* SongServer::list_songs
list_songs(page_size, fail) ==
    LET r == SongStore_list(sanitize_page_size(page_size), fail)
    IN  IF r.err # ""
        THEN SongError(map_store_error(r.err),
                       store_error_message("song", r.err), <<"list">>)
        ELSE SongResult("OK", <<>>, <<"list">>,
                        [k \in 1..Len(r.rows) |-> record_to_song(r.rows[k])],
                        songs, songSeq)

\* update_song checking the title of the payload, as create_song does, before
\* store.get
update_song_get_payload_checked(song, mask, fail) ==
    LET stop(status, message, calls) ==
            [pending |-> FALSE, record |-> NoSongRecord, existing |-> NoSongRecord,
             result |-> SongError(status, message, calls)]
    IN  IF ~song.some
        THEN stop("InvalidArgument", <<"update_song requires song payload">>, <<>>)
        ELSE IF song.v.id = 0
        THEN stop("InvalidArgument", <<"song id is required">>, <<>>)
        ELSE IF trim(song.v.title) = <<>>
        THEN stop("InvalidArgument", <<"song title is required">>, <<>>)
        ELSE LET existing == SongStore_get(song.v.id, fail)
             IN  IF existing.err # ""
                 THEN stop(map_store_error(existing.err),
                           store_error_message("song", existing.err), <<"get">>)
                 ELSE LET merged == apply_song_update_mask(existing.record, song.v, mask)
                      IN  IF ~merged.ok
                          THEN stop("InvalidArgument", <<"unsupported update_mask path">>,
                                    <<"get">>)
                          ELSE [pending |-> TRUE,
                                record |-> [id |-> song.v.id,
                                            title |-> merged.updated.title,
                                            description |->
                                                empty_to_none(merged.updated.description),
                                            link |-> empty_to_none(merged.updated.link)],
                                existing |-> existing.record,
                                result |-> SongError("OK", <<>>, <<"get">>)]

\* SongServer::update_song, up to its store.update: the payload and id checks,
\* store.get, the merge and the title check. `record` is what it goes on to
\* write when `pending` holds; `existing` is what store.get returned.
update_song_get(song, mask, fail) ==
    LET stop(status, message, calls) ==
            [pending |-> FALSE, record |-> NoSongRecord, existing |-> NoSongRecord,
             result |-> SongError(status, message, calls)]
    IN  IF ~song.some
        THEN stop("InvalidArgument", <<"update_song requires song payload">>, <<>>)
        ELSE IF song.v.id = 0
        THEN stop("InvalidArgument", <<"song id is required">>, <<>>)
        ELSE LET existing == SongStore_get(song.v.id, fail)
             IN  IF existing.err # ""
                 THEN stop(map_store_error(existing.err),
                           store_error_message("song", existing.err), <<"get">>)
                 ELSE LET merged == apply_song_update_mask(existing.record, song.v, mask)
                      IN  IF ~merged.ok
                          THEN stop("InvalidArgument", <<"unsupported update_mask path">>,
                                    <<"get">>)
                          ELSE IF trim(merged.updated.title) = <<>>
                          THEN stop("InvalidArgument", <<"song title is required">>,
                                    <<"get">>)
                          ELSE [pending |-> TRUE,
                                record |-> [id |-> song.v.id,
                                            title |-> merged.updated.title,
                                            description |->
                                                empty_to_none(merged.updated.description),
                                            link |-> empty_to_none(merged.updated.link)],
                                existing |-> existing.record,
                                result |-> SongError("OK", <<>>, <<"get">>)]

\* SongServer::update_song, from its store.update on
update_song_update(record, fail) ==
    LET r == SongStore_update(record, fail)
    IN  IF r.err # ""
        THEN SongError(map_store_error(r.err),
                       store_error_message("song", r.err), <<"get", "update">>)
        ELSE SongResult("OK", <<>>, <<"get", "update">>, record_to_song(r.record),
                        r.table, songSeq)

\* delete_song with a second store.delete after a failed statement
delete_song_retried(name, fail) ==
    LET id == parse_id(name)
    IN  IF ~id.ok THEN SongError("InvalidArgument", <<"invalid id">>, <<>>)
        ELSE LET r == SongStore_delete(id.id, fail)
             IN  IF r.err = "NotFound"
                 THEN SongError("NotFound", store_error_message("song", r.err),
                                <<"delete">>)
                 ELSE IF r.err # ""
                 THEN LET again == SongStore_delete(id.id, "")
                      IN  IF again.err # ""
                          THEN SongError(map_store_error(again.err),
                                         store_error_message("song", again.err),
                                         <<"delete", "delete">>)
                          ELSE SongResult("OK", <<>>, <<"delete", "delete">>, NoSong,
                                          again.table, songSeq)
                 ELSE SongResult("OK", <<>>, <<"delete">>, NoSong, r.table, songSeq)

\* SongServer::delete_song
delete_song(name, fail) ==
    LET id == parse_id(name)
    IN  IF ~id.ok THEN SongError("InvalidArgument", <<"invalid id">>, <<>>)
        ELSE LET r == SongStore_delete(id.id, fail)
             IN  IF r.err # ""
                 THEN SongError(map_store_error(r.err),
                                store_error_message("song", r.err), <<"delete">>)
                 ELSE SongResult("OK", <<>>, <<"delete">>, NoSong, r.table, songSeq)

-----------------------------------------------------------------------------
(* Participations: grpc/participation.rs.                                  *)

NoParticipation == [tg_id |-> 0, song_id |-> 0, role_title |-> <<>>]
NoParticipationRecord == [song_id |-> 0, person_id |-> 0, role |-> <<>>]

\* record_to_participation
record_to_participation(row) ==
    [tg_id |-> row.person_id, song_id |-> row.song_id, role_title |-> row.role]

\* the position of the first ":" of s, or 0
RECURSIVE colon(_)
colon(s) ==
    IF s = <<>> THEN 0
    ELSE IF Head(s) = ":" THEN 1
    ELSE LET k == colon(Tail(s)) IN IF k = 0 THEN 0 ELSE k + 1

\* name.splitn(3, ':'): the pieces, at most three, the third with the rest
splitn3(name) ==
    LET i == colon(name)
        rest == SubSeq(name, i + 1, Len(name))
        j == colon(rest)
    IN  IF i = 0 THEN <<name>>
        ELSE IF j = 0 THEN <<SubSeq(name, 1, i - 1), rest>>
        ELSE <<SubSeq(name, 1, i - 1), SubSeq(rest, 1, j - 1),
               SubSeq(rest, j + 1, Len(rest))>>

\* parse_participation_name without the checks of the three components
parse_participation_name_unchecked(name) ==
    LET pieces == splitn3(name)
        bad == [ok |-> FALSE, song_id |-> 0, tg_id |-> 0, role_title |-> <<>>]
    IN  IF Len(pieces) < 3 THEN bad
        ELSE LET song_id == parse_u64(trim(pieces[1]))
                 tg_id == parse_u64(trim(pieces[2]))
             IN  IF ~song_id.ok \/ ~tg_id.ok THEN bad
                 ELSE [ok |-> TRUE, song_id |-> song_id.value, tg_id |-> tg_id.value,
                       role_title |-> pieces[3]]

\* parse_participation_name
parse_participation_name(name) ==
    LET pieces == splitn3(name)
        bad == [ok |-> FALSE, song_id |-> 0, tg_id |-> 0, role_title |-> <<>>]
    IN  IF Len(pieces) < 3 THEN bad
        ELSE LET song_id == parse_u64(trim(pieces[1]))
                 tg_id == parse_u64(trim(pieces[2]))
             IN  IF ~song_id.ok \/ ~tg_id.ok THEN bad
                 ELSE IF song_id.value = 0 \/ tg_id.value = 0 \/ trim(pieces[3]) = <<>>
                 THEN bad
                 ELSE [ok |-> TRUE, song_id |-> song_id.value, tg_id |-> tg_id.value,
                       role_title |-> pieces[3]]

\* validate_participation: the message of the first check that fails, or <<>>
validate_participation(participation) ==
    IF participation.tg_id = 0 THEN <<"tg_id is required">>
    ELSE IF participation.song_id = 0 THEN <<"song_id is required">>
    ELSE IF trim(participation.role_title) = <<>> THEN <<"role_title is required">>
    ELSE <<>>

\* the loop with tg_id and song_id passed over
RECURSIVE apply_participation_paths_ids_skipped(_, _, _)
apply_participation_paths_ids_skipped(updated, participation, paths) ==
    IF paths = <<>> THEN [ok |-> TRUE, message |-> <<>>, updated |-> updated]
    ELSE IF paths[1] = "role_title"
    THEN apply_participation_paths_ids_skipped(
             [updated EXCEPT !.role_title = participation.role_title],
             participation, Tail(paths))
    ELSE IF paths[1] \in {"tg_id", "song_id"}
    THEN apply_participation_paths_ids_skipped(updated, participation, Tail(paths))
    ELSE [ok |-> FALSE, message |-> <<"unsupported update_mask path">>,
          updated |-> NoParticipation]

\* the loop of apply_participation_update_mask
RECURSIVE apply_participation_paths(_, _, _)
apply_participation_paths(updated, participation, paths) ==
    IF paths = <<>> THEN [ok |-> TRUE, message |-> <<>>, updated |-> updated]
    ELSE IF paths[1] = "role_title"
    THEN apply_participation_paths(
             [updated EXCEPT !.role_title = participation.role_title],
             participation, Tail(paths))
    ELSE IF paths[1] \in {"tg_id", "song_id"}
    THEN [ok |-> FALSE, message |-> <<"updating tg_id or song_id is not supported">>,
          updated |-> NoParticipation]
    ELSE [ok |-> FALSE, message |-> <<"unsupported update_mask path">>,
          updated |-> NoParticipation]

\* apply_participation_update_mask
apply_participation_update_mask(participation, mask) ==
    apply_participation_paths(participation, participation, paths_of(mask))

\* PostgresParticipationStore::create; the table is a set of rows
ParticipationStore_create(record, fail) ==
    IF fail # "" THEN [err |-> fail, record |-> NoParticipationRecord, table |-> parts]
    ELSE [err |-> "", record |-> record, table |-> parts \cup {record}]

\* PostgresParticipationStore::get
ParticipationStore_get(record, fail) ==
    IF fail # "" THEN [err |-> fail, record |-> NoParticipationRecord]
    ELSE IF record \notin parts THEN [err |-> "NotFound", record |-> NoParticipationRecord]
    ELSE [err |-> "", record |-> record]

\* ORDER BY song_id, person_id: the orders the rows can come in
ParticipationOrders ==
    {rows \in [1..Cardinality(parts) -> parts] :
        /\ \A i, j \in DOMAIN rows : i # j => rows[i] # rows[j]
        /\ \A i, j \in DOMAIN rows :
            i < j =>
                \/ rows[i].song_id < rows[j].song_id
                \/ /\ rows[i].song_id = rows[j].song_id
                   /\ rows[i].person_id <= rows[j].person_id}

\* PostgresParticipationStore::list, the rows coming in the order `rows`
ParticipationStore_list(limit, rows, fail) ==
    IF fail # "" THEN [err |-> fail, rows |-> <<>>]
    ELSE [err |-> "", rows |-> Limit(rows, limit)]

\* an update that finds the row by song and person alone and sets its role
ParticipationStore_update_by_ids(current, new_role, fail) ==
    LET same == {p \in parts : p.song_id = current.song_id /\ p.person_id = current.person_id}
    IN  IF fail # "" THEN [err |-> fail, record |-> NoParticipationRecord, table |-> parts]
        ELSE IF same = {}
        THEN [err |-> "NotFound", record |-> NoParticipationRecord, table |-> parts]
        ELSE LET row == [current EXCEPT !.role = new_role]
             IN  [err |-> "", record |-> row, table |-> (parts \ same) \cup {row}]

\* PostgresParticipationStore::update
ParticipationStore_update(current, new_role, fail) ==
    IF fail # "" THEN [err |-> fail, record |-> NoParticipationRecord, table |-> parts]
    ELSE IF current \notin parts
    THEN [err |-> "NotFound", record |-> NoParticipationRecord, table |-> parts]
    ELSE LET row == [current EXCEPT !.role = new_role]
         IN  [err |-> "", record |-> row, table |-> (parts \ {current}) \cup {row}]

\* PostgresParticipationStore::delete
ParticipationStore_delete(record, fail) ==
    IF fail # "" THEN [err |-> fail, table |-> parts]
    ELSE IF record \notin parts THEN [err |-> "NotFound", table |-> parts]
    ELSE [err |-> "", table |-> parts \ {record}]

\* what a handler hands back: the status, the store operations it invoked,
\* the response body, and the table as it leaves it
ParticipationResult(status, message, calls, body, table) ==
    [status |-> status, message |-> message, calls |-> calls, body |-> body,
     table |-> table]

ParticipationError(status, message, calls) ==
    ParticipationResult(status, message, calls, NoParticipation, parts)

\* ParticipationServer::create_participation
create_participation(participation, fail) ==
    IF ~participation.some
    THEN ParticipationError("InvalidArgument", <<"participation payload is required">>, <<>>)
    ELSE IF validate_participation(participation.v) # <<>>
    THEN ParticipationError("InvalidArgument", validate_participation(participation.v), <<>>)
    ELSE LET record == [song_id |-> participation.v.song_id,
                        person_id |-> participation.v.tg_id,
                        role |-> participation.v.role_title]
             r == ParticipationStore_create(record, fail)
         IN  IF r.err # ""
             THEN ParticipationError(map_store_error(r.err),
                                     store_error_message("participation", r.err),
                                     <<"create">>)
             ELSE ParticipationResult("OK", <<>>, <<"create">>,
                                      record_to_participation(r.record), r.table)

\* ParticipationServer::get_participation
get_participation(name, fail) ==
    LET key == parse_participation_name(name)
    IN  IF ~key.ok
        THEN ParticipationError("InvalidArgument", <<"invalid participation name">>, <<>>)
        ELSE LET record == [song_id |-> key.song_id, person_id |-> key.tg_id,
                            role |-> key.role_title]
                 r == ParticipationStore_get(record, fail)
             IN  IF r.err # ""
                 THEN ParticipationError(map_store_error(r.err),
                                         store_error_message("participation", r.err),
                                         <<"get">>)
                 ELSE ParticipationResult("OK", <<>>, <<"get">>,
                                          record_to_participation(r.record), parts)

\* ParticipationServer::list_participations
list_participations(page_size, rows, fail) ==
    LET r == ParticipationStore_list(sanitize_page_size(page_size), rows, fail)
    IN  IF r.err # ""
        THEN ParticipationError(map_store_error(r.err),
                                store_error_message("participation", r.err), <<"list">>)
        ELSE ParticipationResult("OK", <<>>, <<"list">>,
                                 [k \in 1..Len(r.rows) |->
                                     record_to_participation(r.rows[k])],
                                 parts)

\* ParticipationServer::update_participation
update_participation(participation, mask, fail) ==
    IF ~participation.some
    THEN ParticipationError("InvalidArgument", <<"participation payload is required">>, <<>>)
    ELSE IF validate_participation(participation.v) # <<>>
    THEN ParticipationError("InvalidArgument", validate_participation(participation.v), <<>>)
    ELSE LET updated == apply_participation_update_mask(participation.v, mask)
         IN  IF ~updated.ok
             THEN ParticipationError("InvalidArgument", updated.message, <<>>)
             ELSE LET current == [song_id |-> participation.v.song_id,
                                  person_id |-> participation.v.tg_id,
                                  role |-> participation.v.role_title]
                      r == ParticipationStore_update(current, updated.updated.role_title,
                                                     fail)
                  IN  IF r.err # ""
                      THEN ParticipationError(map_store_error(r.err),
                                              store_error_message("participation", r.err),
                                              <<"update">>)
                      ELSE ParticipationResult("OK", <<>>, <<"update">>,
                                               record_to_participation(r.record), r.table)

\* ParticipationServer::delete_participation
delete_participation(name, fail) ==
    LET key == parse_participation_name(name)
    IN  IF ~key.ok
        THEN ParticipationError("InvalidArgument", <<"invalid participation name">>, <<>>)
        ELSE LET record == [song_id |-> key.song_id, person_id |-> key.tg_id,
                            role |-> key.role_title]
                 r == ParticipationStore_delete(record, fail)
             IN  IF r.err # ""
                 THEN ParticipationError(map_store_error(r.err),
                                         store_error_message("participation", r.err),
                                         <<"delete">>)
                 ELSE ParticipationResult("OK", <<>>, <<"delete">>, NoParticipation,
                                          r.table)

-----------------------------------------------------------------------------
(* Calls through the layers: login, create-concert, and the rest.          *)

NoReply == [op |-> "none"]

\* what a concert column without a value can default to
ColumnDefaults == {NoDate}

\* tokens signed under a key that is not the server's
Forged ==
    {[wellformed |-> TRUE,
      claims |-> [sub |-> a, iat |-> now, exp |-> now + 1, is_admin |-> TRUE],
      sig |-> "attacker"] : a \in AdminIds}

\* tokens under the server's key that it did not sign in this run: those of
\* an earlier run started with the same JWT_SECRET and other ADMIN_IDS, not
\* yet expired
Earlier ==
    {[wellformed |-> TRUE,
      claims |-> [sub |-> a, iat |-> 0, exp |-> now + 1, is_admin |-> a \notin AdminIds],
      sig |-> ServerKey] : a \in TgIds \ {0}}

Text(scheme, token) == [present |-> TRUE, ascii |-> TRUE, scheme |-> scheme, token |-> token]

\* the authorization header a caller can send
Authorizations ==
    {NoAuthorization,
     [present |-> TRUE, ascii |-> FALSE, scheme |-> "", token |-> Garbage],
     Text("Bearer", Garbage)}
    \cup {Text("Bearer", k) : k \in Forged \cup Earlier}
    \cup {Text(s, i.token) : s \in {"Bearer", "", "Basic"}, i \in issued}

\* the x-user-id header values a caller can send
XUserIds == {<<>>, <<<<"4", "2">>>>, <<<<"x">>>>, <<<<"7">>, <<"4", "2">>>>}

Request(path, authorization, x_user_id) ==
    [path |-> path, authorization |-> authorization, x_user_id |-> x_user_id]

\* the concert payloads of create-concert calls through the layers
GatedConcerts == {None, Some([id |-> 0, name |-> <<"a">>, date |-> NoTimestamp])}

\* the answer to a call and how it came about: the layers that ran, the request
\* as the handler got it, the user id the middleware read, the store operations
\* invoked, whether a row was stored, the token handed out
AuthReply(op, req, l, status, calls, stored, token) ==
    [op |-> op, req |-> req, stages |-> l.stages, forwarded |-> l.forwarded,
     down |-> l.req, user_id |-> l.user_id, status |-> status, calls |-> calls,
     stored |-> stored, token |-> token]

\* a LoginTg call
LoginCall ==
    /\ reply.op = "none"
    /\ now <= MaxLoginAt
    /\ \E tg_id \in TgIds, a \in Authorizations, x \in XUserIds :
        LET req == Request(LoginTgPath, a, x)
            l == Layers(req)
            r == login_tg(tg_id)
        IN  /\ tg_id = 0 \/ Cardinality(issued) < MaxTokens
            /\ issued' = IF l.forwarded /\ r.status = "OK"
                         THEN issued \cup {[token |-> r.token, tg_id |-> tg_id]}
                         ELSE issued
            /\ reply' = AuthReply("login_tg", req, l,
                                  IF l.forwarded THEN r.status ELSE l.status, <<>>,
                                  FALSE, IF l.forwarded THEN r.token ELSE Garbage)
                         @@ [tg_id |-> tg_id]
    /\ UNCHANGED <<now, ttl, concerts, concertSeq, songVars>>

\* a CreateConcert call
CreateConcertCall ==
    /\ reply.op = "none"
    /\ concertSeq <= MaxId
    /\ \E a \in Authorizations, x \in XUserIds, concert \in GatedConcerts,
          fail \in {"", "connection reset"}, default \in ColumnDefaults :
        LET req == Request(CreateConcertPath, a, x)
            l == Layers(req)
            r == IF l.forwarded
                 THEN create_concert(concert, fail, default)
                 ELSE ConcertError(l.status, <<>>, <<>>)
        IN  /\ concerts' = r.table
            /\ concertSeq' = r.seq
            /\ reply' = AuthReply("create_concert", req, l, r.status, r.calls,
                                  r.table # concerts, Garbage)
    /\ UNCHANGED <<authVars, songVars>>

\* a call of any other method: the layers, then its handler
OtherCall ==
    /\ reply.op = "none"
    /\ \E path \in OtherPaths, a \in Authorizations, x \in XUserIds :
        LET req == Request(path, a, x)
            l == Layers(req)
        IN  reply' = AuthReply("other", req, l, l.status, <<>>, FALSE, Garbage)
    /\ UNCHANGED <<authVars, concerts, concertSeq, songVars>>

\* the x-user-id header values the middleware can be handed when it is not
\* behind the interceptor
BareXUserIds ==
    XUserIds \cup {<<<<"7">>>>, <<<<"0x80">>>>, <<<<" ", "4", "2">>>>, <<<<"+", "4", "2">>>>,
                   <<<<"-", "1">>>>, <<<<"4", "2">>, <<"x">>>>}

\* AdminOnlyMiddleware::call on its own, in front of a service: on a request,
\* and on the same request under every other authorization header
MiddlewareCall ==
    /\ reply.op = "none"
    /\ \E path \in {CreateConcertPath, <<"ConcertService", "GetConcert">>},
          a \in {NoAuthorization, Text("Bearer", Garbage)}, x \in BareXUserIds :
        LET req == Request(path, a, x)
            m == AdminOnlyMiddleware_call(req)
        IN  reply' = [op |-> "admin_only", req |-> req,
                      stages |-> IF m.forward THEN <<"admin", "handler">> ELSE <<"admin">>,
                      forwarded |-> m.forward, down |-> req, user_id |-> m.user_id,
                      status |-> m.status,
                      decisions |-> {AdminOnlyMiddleware_call(
                                         [req EXCEPT !.authorization = b]) :
                                     b \in Authorizations}]
    /\ UNCHANGED <<authVars, concerts, concertSeq, songVars>>

\* the reply leaves
Deliver ==
    /\ reply.op # "none"
    /\ reply' = NoReply
    /\ UNCHANGED <<authVars, concerts, concertSeq, songVars>>

\* the moments the clock is looked at: the login times and, around each
\* token's expiry, the second before, the second itself, the second after,
\* the end of the leeway and the second after that
Instants ==
    (0..MaxLoginAt)
    \cup {i.token.claims.exp + k : i \in issued, k \in {-1, 0, 1, Leeway, Leeway + 1}}

\* time passes
Tick ==
    /\ reply.op = "none"
    /\ \E t \in Instants : t > now /\ now' = t
    /\ UNCHANGED <<ttl, issued, concerts, concertSeq, songVars, reply>>

EmptyTable == [i \in {} |-> 0]

AuthInit ==
    /\ now = 0
    /\ ttl \in 0..MaxTtl
    /\ issued = {}
    /\ concerts = EmptyTable
    /\ concertSeq = 1
    /\ songs = EmptyTable
    /\ songSeq = 1
    /\ parts = {}
    /\ svc = "concert"
    /\ pending = {}
    /\ race = <<>>
    /\ hist = NoHistory
    /\ reply = NoReply

AuthNext ==
    LoginCall \/ CreateConcertCall \/ OtherCall \/ MiddlewareCall \/ Deliver \/ Tick

SpecAuth == AuthInit /\ [][AuthNext]_vars

-----------------------------------------------------------------------------
(* Properties of the layers and the tokens, under SpecAuth.                *)

\* the reply is that of a CreateConcert call
Gated == reply.op = "create_concert"

\* the call carried this token, bare or after "Bearer "
Carries(token) ==
    /\ reply.req.authorization.present
    /\ reply.req.authorization.ascii
    /\ reply.req.authorization.scheme \in {"Bearer", ""}
    /\ reply.req.authorization.token = token

\* a credential issued by the server that has not reached its expiry
Unexpired(i) == i \in issued /\ now < i.token.claims.exp

\* C1: a CreateConcert call without an authorization header is answered
\* Unauthenticated; with an unexpired token of a subject outside the admin set,
\* PermissionDenied; with an unexpired token of a subject in the admin set it
\* reaches the handler. A call that is rejected reaches no handler, invokes no
\* store operation and stores no concert.
C1_AdminGate ==
    Gated =>
        /\ ~reply.req.authorization.present => reply.status = "Unauthenticated"
        /\ \A i \in issued :
            Unexpired(i) /\ Carries(i.token) =>
                IF i.tg_id \in AdminIds
                THEN reply.forwarded /\ reply.stages = <<"intercept", "admin", "handler">>
                ELSE reply.status = "PermissionDenied"
        /\ reply.status \in {"Unauthenticated", "PermissionDenied"} =>
                /\ ~reply.forwarded
                /\ reply.calls = <<>>
                /\ ~reply.stored

\* a non-admin's unexpired token has been refused, an admin's has stored a concert
C1_Witness ==
    /\ Gated
    /\ reply.status = "OK"
    /\ reply.stored
    /\ DOMAIN concerts # {}
    /\ \E i \in issued : Unexpired(i) /\ Carries(i.token) /\ i.tg_id \in AdminIds

\* C2: on a CreateConcert call with an unexpired token of subject s, the user
\* id the middleware reads is s and the x-user-id the handler side sees is s
\* alone, whatever x-user-id values the caller sent; a non-admin's token with a
\* caller-sent admin x-user-id is answered PermissionDenied.
C2_VerifiedIdentityWins ==
    Gated =>
        \A i \in issued :
            Unexpired(i) /\ Carries(i.token) =>
                /\ reply.user_id = [ok |-> TRUE, value |-> i.tg_id]
                /\ reply.down.x_user_id = <<to_string(i.tg_id)>>
                /\ i.tg_id \notin AdminIds => reply.status = "PermissionDenied"

\* a non-admin's token came with x-user-id: 42 and was refused
C2_Witness ==
    /\ Gated
    /\ reply.req.x_user_id = <<<<"4", "2">>>>
    /\ reply.status = "PermissionDenied"
    /\ \E i \in issued : Unexpired(i) /\ Carries(i.token) /\ i.tg_id = 7

\* C3, as claimed: on every call the layers let through, the x-user-id the
\* handler side sees is what it would be had the caller sent none, so no
\* caller-chosen value gets through.
C3_CallerCannotSetUserId ==
    reply.op # "none" /\ reply.forwarded =>
        reply.down.x_user_id = Layers([reply.req EXCEPT !.x_user_id = <<>>]).req.x_user_id

\* C4: at every time t with iat <= t < iat + ttl, a token login_tg issued for
\* a non-zero tg_id s decodes, and to subject s; a CreateConcert call carrying
\* it then passes the interceptor with x-user-id s.
C4_VerifyIssuedWithinTtl ==
    \A i \in issued :
        i.token.claims.iat <= now /\ now < i.token.claims.iat + ttl =>
            /\ i.tg_id # 0
            /\ decode(i.token).ok
            /\ decode(i.token).claims.sub = i.tg_id
            /\ Gated /\ Carries(i.token) =>
                  /\ reply.status # "Unauthenticated"
                  /\ reply.down.x_user_id = <<to_string(i.tg_id)>>

\* a token was presented later than it was issued and within its lifetime
C4_Witness ==
    /\ Gated
    /\ reply.status # "Unauthenticated"
    /\ \E i \in issued :
        /\ Carries(i.token)
        /\ i.token.claims.iat < now
        /\ now < i.token.claims.iat + ttl

\* C5, as claimed: from now = exp on, a CreateConcert call carrying a token
\* the server issued is answered Unauthenticated; so is, at any time, one
\* carrying a token under another key or a string that is no token.
C5_RejectedFromExpiryOn ==
    Gated =>
        /\ \A i \in issued :
            now >= i.token.claims.exp /\ Carries(i.token) =>
                reply.status = "Unauthenticated"
        /\ \A k \in Forged \cup {Garbage} :
            Carries(k) => reply.status = "Unauthenticated"

\* a credential issued by the server that jsonwebtoken no longer accepts
Lapsed(i) == i \in issued /\ i.token.claims.exp + Leeway < now

\* C18: every call whose path does not end with /CreateConcert (LoginTg, the
\* song and participation methods, GetConcert, ListConcerts, UpdateConcert,
\* DeleteConcert) runs through both layers to its handler with the request as
\* the caller sent it, whether the authorization header is absent, not a
\* header string, no token, a token under another key, or an issued token
\* before or after its expiry; a CreateConcert call without an authorization
\* header does not.
C18_OnlyCreateConcertGated ==
    /\ reply.op \in {"login_tg", "other"} =>
          /\ ~ends_with_CreateConcert(reply.req.path)
          /\ reply.stages = <<"intercept", "admin", "handler">>
          /\ reply.forwarded
          /\ reply.down = reply.req
          /\ reply.op = "other" => reply.status = "OK"
    /\ Gated /\ ~reply.req.authorization.present => ~reply.forwarded

\* a concert update came with a lapsed token and caller-sent x-user-id values
\* and reached its handler
C18_Witness ==
    /\ reply.op = "other"
    /\ reply.req.path = <<"ConcertService", "UpdateConcert">>
    /\ reply.req.x_user_id # <<>>
    /\ reply.forwarded
    /\ reply.down = reply.req
    /\ \E i \in issued : Lapsed(i) /\ Carries(i.token)

\* C19: every token login_tg hands out names the tg_id it was asked for as
\* its subject and has is_admin true exactly when that tg_id is one of the
\* ADMIN_IDS the server was started with; the token in an OK login answer is
\* such a token.
C19_AdminFlagFollowsAdminIds ==
    /\ \A i \in issued :
          /\ i.token.claims.sub = i.tg_id
          /\ i.token.claims.is_admin = (i.tg_id \in AdminIds)
    /\ reply.op = "login_tg" /\ reply.status = "OK" =>
          /\ reply.token.wellformed
          /\ reply.token.claims.sub # 0
          /\ reply.token.claims.is_admin = (reply.token.claims.sub \in AdminIds)
          /\ \E i \in issued : i.token = reply.token

\* an administrator and another user have both logged in
C19_Witness ==
    /\ \E i \in issued : i.tg_id \in AdminIds /\ i.token.claims.is_admin
    /\ \E i \in issued : i.tg_id \notin AdminIds /\ ~i.token.claims.is_admin
    /\ reply.op = "login_tg"
    /\ reply.status = "OK"

\* C20, as claimed: every token login_tg hands out expires later than it was
\* issued, for every JWT_TTL_SECONDS the server accepts.
C20_ExpiresAfterIssued ==
    \A i \in issued : i.token.claims.exp > i.token.claims.iat

\* C21: a login with tg_id 0 is answered InvalidArgument, carries no token
\* and no token for subject 0 is ever handed out; a login with a non-zero
\* tg_id is answered OK with a token signed under the server's key whose
\* subject is that tg_id, which the interceptor decodes to that subject.
C21_LoginZeroRejected ==
    /\ \A i \in issued : i.tg_id # 0 /\ i.token.claims.sub # 0
    /\ reply.op = "login_tg" =>
          IF reply.tg_id = 0
          THEN /\ reply.status = "InvalidArgument"
               /\ reply.token = Garbage
          ELSE /\ reply.status = "OK"
               /\ reply.token.wellformed
               /\ reply.token.sig = ServerKey
               /\ reply.token.claims.sub = reply.tg_id
               /\ decode(reply.token).ok
               /\ decode(reply.token).claims.sub = reply.tg_id
               /\ [token |-> reply.token, tg_id |-> reply.tg_id] \in issued

\* a login with tg_id 0 was refused after another user had logged in
C21_Witness ==
    /\ reply.op = "login_tg"
    /\ reply.tg_id = 0
    /\ reply.status = "InvalidArgument"
    /\ issued # {}

\* what the interceptor makes of the authorization header of the call
Presented ==
    IF reply.req.authorization.present /\ reply.req.authorization.ascii
    THEN decode(strip_prefix(reply.req.authorization))
    ELSE [ok |-> FALSE, claims |-> NoClaims]

\* C22, as claimed: every CreateConcert call that reaches the handler carried
\* a token that verifies and whose is_admin claim is true, and no call with a
\* token that verifies and whose is_admin claim is false reaches the handler.
C22_AdminClaimRequired ==
    Gated =>
        /\ reply.forwarded => Presented.ok /\ Presented.claims.is_admin
        /\ Presented.ok /\ ~Presented.claims.is_admin => ~reply.forwarded

\* C29: on every call the interceptor runs first and the middleware, when it
\* runs, second; a CreateConcert call the interceptor refused never gets to
\* the middleware; and when the middleware looks at a CreateConcert call, the
\* user id it reads is the subject of the token the interceptor verified on
\* that call, whatever x-user-id the caller sent.
C29_MiddlewareAfterInterceptor ==
    reply.op \in {"login_tg", "create_concert", "other"} =>
        /\ reply.stages[1] = "intercept"
        /\ \A k \in DOMAIN reply.stages : reply.stages[k] = "admin" => k = 2
        /\ Gated /\ ~Presented.ok =>
              /\ reply.stages = <<"intercept">>
              /\ reply.status = "Unauthenticated"
              /\ reply.user_id = [ok |-> FALSE, value |-> 0]
        /\ Gated /\ "admin" \in Range(reply.stages) =>
              /\ Presented.ok
              /\ reply.user_id = [ok |-> TRUE, value |-> Presented.claims.sub]
              /\ reply.down.x_user_id = <<to_string(Presented.claims.sub)>>

\* the middleware refused a user's token on a call that came with x-user-id 42
C29_Witness ==
    /\ Gated
    /\ reply.stages = <<"intercept", "admin">>
    /\ reply.req.x_user_id = <<<<"4", "2">>>>
    /\ reply.user_id = [ok |-> TRUE, value |-> 7]
    /\ \E i \in issued : Carries(i.token) /\ i.tg_id = 7

\* a header value that is an unsigned integer: digits, after "+" or not
Unsigned(value) ==
    LET d == IF value # <<>> /\ value[1] = "+" THEN Tail(value) ELSE value
    IN  d # <<>> /\ \A k \in 1..Len(d) : IsDigit(d[k])

\* C30: the middleware on its own, on a CreateConcert call, answers
\* PermissionDenied and does not call the service when there is no x-user-id,
\* when its first value is not an unsigned integer and when the integer is
\* not one of ADMIN_IDS; in every other case it calls the service with the
\* request as it came.
C30_MiddlewareAlone ==
    reply.op = "admin_only" /\ ends_with_CreateConcert(reply.req.path) =>
        LET x == reply.req.x_user_id
        IN  IF \/ x = <<>>
               \/ ~Unsigned(x[1])
               \/ parse_u64(x[1]).value \notin AdminIds
            THEN /\ reply.status = "PermissionDenied"
                 /\ ~reply.forwarded
                 /\ reply.stages = <<"admin">>
            ELSE /\ reply.forwarded
                 /\ reply.stages = <<"admin", "handler">>
                 /\ reply.down = reply.req
                 /\ reply.user_id.value \in AdminIds

\* the middleware on its own refused x-user-id 7 on a CreateConcert call
C30_Witness ==
    /\ reply.op = "admin_only"
    /\ ends_with_CreateConcert(reply.req.path)
    /\ reply.req.x_user_id = <<<<"7">>>>
    /\ reply.status = "PermissionDenied"
    /\ ~reply.forwarded

\* C31: the middleware's answer to a request is its answer to the same
\* request under any other authorization header: none, a header that is no
\* string, a string that is no token, a token under another key, a token of
\* an earlier run, a token the server issued, under Bearer, bare or Basic.
C31_MiddlewareIgnoresAuthorization ==
    reply.op = "admin_only" =>
        reply.decisions = {[forward |-> reply.forwarded, status |-> reply.status,
                            user_id |-> reply.user_id]}

\* the middleware refused x-user-id 7 on a CreateConcert call without
\* authorization header as it does under an administrator's token
C31_Witness ==
    /\ reply.op = "admin_only"
    /\ ends_with_CreateConcert(reply.req.path)
    /\ ~reply.req.authorization.present
    /\ reply.req.x_user_id = <<<<"7">>>>
    /\ ~reply.forwarded
    /\ \E i \in issued : i.tg_id \in AdminIds /\ now < i.token.claims.exp

\* C33: whatever step is taken (a login, for the same subject or another, a
\* CreateConcert or other call, the clock moving on) every token issued so
\* far stays issued with the claims it was signed with, decodes to those
\* claims as long as the clock is before its exp, and once decode has
\* refused it is refused after the step as well.
C33_TokensNeverRevoked ==
    [][/\ issued \subseteq issued'
       /\ \A i \in issued :
            /\ now' < i.token.claims.exp =>
                  /\ decode(i.token)'.ok
                  /\ decode(i.token)'.claims = i.token.claims
                  /\ decode(i.token)'.claims.sub = i.tg_id
            /\ ~decode(i.token).ok => ~decode(i.token)'.ok]_vars

\* a user's older token was accepted by the interceptor after the same user
\* had logged in again
C33_Witness ==
    /\ Gated
    /\ reply.status # "Unauthenticated"
    /\ \E i, j \in issued :
        /\ i.tg_id = j.tg_id
        /\ i.token.claims.iat < j.token.claims.iat
        /\ Carries(i.token)
        /\ now < i.token.claims.exp

\* a CreateConcert request with this token after "Bearer " and nothing else
WithToken(token) == Request(CreateConcertPath, Text("Bearer", token), <<>>)

\* C35: a login with a tg_id of ADMIN_IDS, sent with no authorization header
\* or any other, is answered OK with a token under which a CreateConcert
\* request passes both layers; a login with any other tg_id never yields
\* such a token.
C35_LoginOpensGate ==
    reply.op = "login_tg" =>
        IF reply.tg_id \in AdminIds
        THEN /\ reply.status = "OK"
             /\ Layers(WithToken(reply.token)).forwarded
             /\ Layers(WithToken(reply.token)).user_id = [ok |-> TRUE, value |-> reply.tg_id]
        ELSE ~Layers(WithToken(reply.token)).forwarded

\* a concert was stored under the token of a login that carried no
\* authorization: the only tokens issued are an administrator's
C35_Witness ==
    /\ Gated
    /\ reply.forwarded
    /\ reply.stored
    /\ reply.req.x_user_id = <<>>
    /\ issued # {}
    /\ \A i \in issued : i.tg_id \in AdminIds
    /\ \E i \in issued : Carries(i.token)

-----------------------------------------------------------------------------
(* The update-mask merges on their own: every stored record, every payload  *)
(* and every mask of the sets below.                                        *)

\* the sequences over S of length at most n
SeqsUpTo(S, n) == UNION {[1..k -> S] : k \in 0..n}

\* Option<FieldMask> values: absent, or the paths in the order given
Masks(names) == {NoMask} \cup {Mask(paths) : paths \in SeqsUpTo(names, MaxMask)}

\* the field names a song mask can carry: the recognized ones and another
SongPaths == {"title", "description", "link", "artist"}
\* the field names a concert mask can carry: the recognized ones and another
ConcertPaths == {"name", "date", "venue"}

\* rows of table songs: the title is not blank, a blank description or link
\* is NULL (create_song, update_song)
SongRows(ids) ==
    {[id |-> i, title |-> t, description |-> d, link |-> l] :
        i \in ids, t \in {<<"a">>, <<"b">>},
        d \in {None, Some(<<"d">>)}, l \in {None, Some(<<"l">>)}}

\* Song messages of requests
SongPayloads(ids) ==
    {[id |-> i, title |-> t, description |-> d, link |-> l] :
        i \in ids, t \in {<<>>, <<" ">>, <<"a">>, <<"c">>},
        d \in {<<>>, <<" ">>, <<"e">>}, l \in {<<>>, <<"m">>}}

\* rows of table concerts
ConcertRows(ids) ==
    {[id |-> i, name |-> n, date |-> d] :
        i \in ids, n \in {<<"a">>, <<"b">>},
        d \in {NoDate, Date(0 - 1), Date(0), Date(19000)}}

\* Concert messages of requests
ConcertPayloads(ids) ==
    {[id |-> i, name |-> n, date |-> d] :
        i \in ids, n \in {<<>>, <<" ">>, <<"a">>, <<"c">>},
        d \in {NoTimestamp, Timestamp(0, 0), Timestamp(SecondsPerDay + 5, 7),
               Timestamp(59, NanosPerSecond), Timestamp(5, 0 - 1)}}

\* update_song and update_concert merge the payload into the row store.get
\* returns for the payload's id: the table holds the row, the arguments are
\* the row, a payload of its id and a mask
MergeInit ==
    /\ now = 0
    /\ ttl = 1
    /\ issued = {}
    /\ concertSeq = MaxId + 1
    /\ songSeq = MaxId + 1
    /\ parts = {}
    /\ svc \in {"song", "concert"}
    /\ pending = {}
    /\ race = <<>>
    /\ hist = NoHistory
    /\ \E i \in 1..MaxId :
        \/ /\ svc = "song"
           /\ concerts = EmptyTable
           /\ \E existing \in SongRows({i}), incoming \in SongPayloads({i}),
                 mask \in Masks(SongPaths) :
                /\ songs = [j \in {i} |-> existing]
                /\ reply = [op |-> "arguments", existing |-> existing,
                            incoming |-> incoming, mask |-> mask]
        \/ /\ svc = "concert"
           /\ songs = EmptyTable
           /\ \E existing \in ConcertRows({i}), incoming \in ConcertPayloads({i}),
                 mask \in Masks(ConcertPaths) :
                /\ concerts = [j \in {i} |-> existing]
                /\ reply = [op |-> "arguments", existing |-> existing,
                            incoming |-> incoming, mask |-> mask]

\* the mask followed by itself
Twice(mask) == IF mask.some THEN Mask(mask.paths \o mask.paths) ELSE mask

\* the masks of the same length that carry the same names in any order
Reorderings(mask) ==
    IF ~mask.some THEN {mask}
    ELSE {Mask(paths) : paths \in
             {q \in [1..Len(mask.paths) -> Range(mask.paths)] :
                 Range(q) = Range(mask.paths)}}

\* apply_song_update_mask on the arguments, and update_song up to its
\* store.update on the same payload and mask; the same merge under the mask
\* doubled, on the row the update writes, and under the mask reordered
ApplySongMask ==
    /\ svc = "song"
    /\ reply.op = "arguments"
    /\ reply' = [op |-> "apply_song_update_mask", existing |-> reply.existing,
                 incoming |-> reply.incoming, mask |-> reply.mask,
                 from |-> record_to_song(reply.existing),
                 merged |-> apply_song_update_mask(reply.existing, reply.incoming,
                                                   reply.mask),
                 write |-> update_song_get(Some(reply.incoming), reply.mask, ""),
                 twice |-> apply_song_update_mask(reply.existing, reply.incoming,
                                                  Twice(reply.mask)),
                 again |-> LET write == update_song_get(Some(reply.incoming),
                                                        reply.mask, "")
                           IN  IF write.pending
                               THEN Some(apply_song_update_mask(write.record,
                                                                reply.incoming,
                                                                reply.mask))
                               ELSE None,
                 orders |-> {apply_song_update_mask(reply.existing, reply.incoming, m) :
                                m \in Reorderings(reply.mask)},
                 done |-> LET write == update_song_get(Some(reply.incoming),
                                                       reply.mask, "")
                          IN  IF write.pending THEN update_song_update(write.record, "")
                              ELSE write.result]
    /\ UNCHANGED <<authVars, concerts, concertSeq, songVars>>

\* apply_concert_update_mask on the arguments, and update_concert up to its
\* store.update on the same payload and mask; the stored date to a timestamp
\* and back, and get_concert of the stored row
ApplyConcertMask ==
    /\ svc = "concert"
    /\ reply.op = "arguments"
    /\ reply' = [op |-> "apply_concert_update_mask", existing |-> reply.existing,
                 incoming |-> reply.incoming, mask |-> reply.mask,
                 from |-> record_to_concert(reply.existing),
                 merged |-> apply_concert_update_mask(reply.existing, reply.incoming,
                                                      reply.mask),
                 write |-> update_concert_get(Some(reply.incoming), reply.mask, ""),
                 twice |-> apply_concert_update_mask(reply.existing, reply.incoming,
                                                     Twice(reply.mask)),
                 again |-> LET write == update_concert_get(Some(reply.incoming),
                                                           reply.mask, "")
                           IN  IF write.pending
                               THEN Some(apply_concert_update_mask(write.record,
                                                                   reply.incoming,
                                                                   reply.mask))
                               ELSE None,
                 orders |-> {apply_concert_update_mask(reply.existing, reply.incoming, m) :
                                m \in Reorderings(reply.mask)},
                 back |-> date_from_timestamp(record_to_concert(reply.existing).date),
                 got |-> get_concert(to_string(reply.existing.id), ""),
                 done |-> LET write == update_concert_get(Some(reply.incoming),
                                                          reply.mask, "")
                          IN  IF write.pending THEN update_concert_update(write.record, "")
                              ELSE write.result]
    /\ UNCHANGED <<authVars, concerts, concertSeq, songVars>>

MergeNext == ApplySongMask \/ ApplyConcertMask

SpecMerge == MergeInit /\ [][MergeNext]_vars

\* the reply is the outcome of a merge
Merged == reply.op \in {"apply_song_update_mask", "apply_concert_update_mask"}

\* the names in the mask of the merge
Named == {reply.mask.paths[k] : k \in 1..Len(reply.mask.paths)}

\* the names a mask of the merged resource may carry
Recognized ==
    IF reply.op = "apply_song_update_mask"
    THEN {"title", "description", "link"}
    ELSE {"name", "date"}

\* C7: a merge under a non-empty mask of recognized names succeeds, and its
\* result holds, in each named field, the value of incoming and, in every
\* other field and in the identifier, the value of the existing record; the
\* row the update then goes on to write has the stored row's identifier and
\* the stored row's value in every field the mask does not name.
C7_SelectiveMerge ==
    Merged /\ reply.mask.some /\ Named # {} /\ Named \subseteq Recognized =>
        /\ reply.merged.ok
        /\ reply.merged.updated.id = reply.existing.id
        /\ DOMAIN reply.merged.updated = Recognized \cup {"id"}
        /\ \A f \in Recognized :
            reply.merged.updated[f] =
                IF f \in Named THEN reply.incoming[f] ELSE reply.from[f]
        /\ reply.write.pending =>
            /\ reply.write.record.id = reply.existing.id
            /\ \A f \in Recognized \ Named :
                reply.write.record[f] = reply.existing[f]

\* a song merged under mask [title, title]: the title is the payload's, the
\* description and link are the stored ones though the payload has others
C7_Witness ==
    /\ reply.op = "apply_song_update_mask"
    /\ reply.mask = Mask(<<"title", "title">>)
    /\ reply.merged.ok
    /\ reply.incoming.title # reply.from.title
    /\ reply.incoming.description # reply.from.description
    /\ reply.incoming.link # reply.from.link
    /\ reply.merged.updated.title = reply.incoming.title
    /\ reply.merged.updated.description = <<"d">>
    /\ reply.merged.updated.link = <<"l">>
    /\ reply.write.pending
    /\ reply.write.record.description = Some(<<"d">>)

\* C8: a merge under an absent or empty mask succeeds and its result is
\* incoming, field for field, whatever the existing record holds.
C8_FullReplace ==
    Merged /\ (~reply.mask.some \/ reply.mask.paths = <<>>) =>
        /\ reply.merged.ok
        /\ reply.merged.updated = reply.incoming

\* a concert with a date replaced in full by a payload with a blank name and
\* no date
C8_Witness ==
    /\ reply.op = "apply_concert_update_mask"
    /\ reply.mask = NoMask
    /\ reply.merged.ok
    /\ reply.from.date.some
    /\ reply.from.date.seconds > 0
    /\ reply.incoming.name = <<" ">>
    /\ reply.incoming.date = NoTimestamp
    /\ reply.merged.updated.date = NoTimestamp

\* C25: for every stored record, payload and non-empty mask of recognized
\* names, the merge under the mask followed by itself gives the record the
\* merge under the mask gives, and so does merging the same payload under
\* the same mask into the row the update goes on to write.
C25_MergeIdempotent ==
    Merged /\ reply.mask.some /\ Named # {} /\ Named \subseteq Recognized =>
        /\ reply.merged.ok
        /\ reply.twice = reply.merged
        /\ reply.again.some => reply.again.v = reply.merged

\* a concert merged under [name, date] with a payload of another name and a
\* date with a time of day, once, under the doubled mask and again on the row
\* to be written
C25_Witness ==
    /\ reply.op = "apply_concert_update_mask"
    /\ reply.mask = Mask(<<"name", "date">>)
    /\ reply.incoming.name = <<"c">>
    /\ reply.from.name # <<"c">>
    /\ reply.incoming.date = Timestamp(SecondsPerDay + 5, 7)
    /\ reply.again.some
    /\ reply.again.v.updated.name = <<"c">>
    /\ reply.twice.updated.name = <<"c">>

\* C26: two masks that carry the same recognized names in different orders
\* give the same merged record, and the merge leaves the stored row, the
\* payload and the table as they were.
C26_MergeOrderIndependent ==
    Merged /\ reply.mask.some /\ Named \subseteq Recognized =>
        /\ reply.orders = {reply.merged}
        /\ IF reply.op = "apply_song_update_mask"
           THEN /\ songs = [j \in {reply.existing.id} |-> reply.existing]
                /\ reply.write.result.table = songs
           ELSE /\ concerts = [j \in {reply.existing.id} |-> reply.existing]
                /\ reply.write.result.table = concerts
        /\ reply.incoming.id = reply.existing.id

\* a song merged under [link, title] and under [title, link], the payload
\* differing from the stored row in both
C26_Witness ==
    /\ reply.op = "apply_song_update_mask"
    /\ reply.mask = Mask(<<"link", "title">>)
    /\ Cardinality(Reorderings(reply.mask)) = 2
    /\ reply.merged.ok
    /\ reply.incoming.title # reply.from.title
    /\ reply.incoming.link # reply.from.link
    /\ reply.merged.updated.title = reply.incoming.title
    /\ reply.merged.updated.link = reply.incoming.link

\* C34: the date of a stored concert, made a timestamp and a date again, is
\* the stored date; get_concert returns the stored date's midnight, which
\* reads back as the stored date; and the row an update under a mask without
\* date goes on to write has the stored date.
C34_DateRoundTrip ==
    reply.op = "apply_concert_update_mask" =>
        /\ reply.back = reply.existing.date
        /\ reply.got.status = "OK"
        /\ reply.got.body.date = reply.from.date
        /\ date_from_timestamp(reply.got.body.date) = reply.existing.date
        /\ reply.existing.date.some =>
              /\ reply.got.body.date.some
              /\ reply.got.body.date.nanos = 0
              /\ reply.got.body.date.seconds = reply.existing.date.day * SecondsPerDay
        /\ /\ reply.mask.some /\ Named # {} /\ "date" \notin Named
           /\ reply.write.pending
           => reply.write.record.date = reply.existing.date

\* a concert dated the day before the epoch, updated by name alone with a
\* payload of another date
C34_Witness ==
    /\ reply.op = "apply_concert_update_mask"
    /\ reply.existing.date = Date(0 - 1)
    /\ reply.mask = Mask(<<"name">>)
    /\ reply.incoming.date = Timestamp(SecondsPerDay + 5, 7)
    /\ reply.write.pending
    /\ reply.write.record.date = Date(0 - 1)
    /\ reply.got.body.date = Timestamp(0 - SecondsPerDay, 0)

\* C38: update_song and update_concert check the title (name) of the merged
\* record, not of the payload. With a blank title in the payload, a mask of
\* recognized names other than title gives an update that succeeds and
\* keeps the stored title; a mask naming title, or no mask or an empty one
\* (full replace), is answered InvalidArgument after store.get, with no
\* store.update and the stored row as it was.
C38_MergedRecordValidated ==
    reply.op \in {"apply_song_update_mask", "apply_concert_update_mask"} =>
        LET song == reply.op = "apply_song_update_mask"
            key == IF song THEN "title" ELSE "name"
            others == IF song THEN {"description", "link"} ELSE {"date"}
            title(m) == IF song THEN m.title ELSE m.name
            paths == paths_of(reply.mask)
        IN  trim(title(reply.incoming)) = <<>> =>
                /\ paths # <<>> /\ Range(paths) \subseteq others =>
                      /\ reply.write.pending
                      /\ title(reply.write.record) = title(reply.existing)
                      /\ reply.done.status = "OK"
                      /\ reply.done.calls = <<"get", "update">>
                      /\ title(reply.done.body) = title(reply.existing)
                      /\ title(reply.done.table[reply.existing.id]) = title(reply.existing)
                /\ paths = <<>> \/ key \in Range(paths) =>
                      /\ ~reply.write.pending
                      /\ reply.done.status = "InvalidArgument"
                      /\ reply.done.calls = <<"get">>
                      /\ Range(paths) \subseteq others \cup {key} =>
                            reply.done.message =
                                IF song THEN <<"song title is required">>
                                ELSE <<"concert name is required">>
                      /\ reply.done.table = (IF song THEN songs ELSE concerts)
                      /\ reply.done.table[reply.existing.id] = reply.existing

\* a song update under mask [description] with an empty title in the payload
\* succeeded and changed the description
C38_Witness ==
    /\ reply.op = "apply_song_update_mask"
    /\ reply.incoming.title = <<>>
    /\ reply.mask = Mask(<<"description">>)
    /\ reply.done.status = "OK"
    /\ reply.done.body.title = reply.existing.title
    /\ reply.done.table # songs

-----------------------------------------------------------------------------
(* Two update_song calls on one song, side by side: each is its store.get  *)
(* with the merge, and later its store.update.                             *)

\* the two calls
Callers == {"c1", "c2"}

\* the song both calls update: the one row of the table
RaceId == CHOOSE i \in DOMAIN songs : TRUE

\* the payloads of the two calls
RacePayloads ==
    {[id |-> RaceId, title |-> t, description |-> d, link |-> <<"m">>] :
        t \in {<<>>, <<"c">>}, d \in {<<>>, <<"e">>}}

\* the masks of the two calls
RaceMasks ==
    {NoMask, Mask(<<"title">>), Mask(<<"description">>), Mask(<<"link">>),
     Mask(<<"link", "title">>)}

\* a call that has not started
NotStarted ==
    [pc |-> "start", song |-> NoSong, mask |-> NoMask, existing |-> NoSongRecord,
     record |-> NoSongRecord, status |-> "", readAfter |-> 0, wrote |-> FALSE]

RaceInit ==
    /\ now = 0
    /\ ttl = 1
    /\ issued = {}
    /\ concerts = EmptyTable
    /\ concertSeq = 1
    /\ songs \in {[j \in {row.id} |-> row] : row \in SongRows(1..MaxId)}
    /\ songSeq = MaxId + 1
    /\ parts = {}
    /\ svc = "song"
    /\ pending = {}
    /\ race = [calls |-> [c \in Callers |-> NotStarted], writes |-> <<>>]
    /\ hist = NoHistory
    /\ reply = NoReply

\* update_song of caller c up to its store.update; the call remembers how many
\* writes had been made when it read
RaceGet(c) ==
    /\ race.calls[c].pc = "start"
    /\ \E song \in RacePayloads, mask \in RaceMasks, fail \in {"", "connection reset"} :
        LET r == update_song_get(Some(song), mask, fail)
        IN  race' = [race EXCEPT !.calls[c] =
                        [pc |-> IF r.pending THEN "read" ELSE "done",
                         song |-> song, mask |-> mask, existing |-> r.existing,
                         record |-> r.record, status |-> r.result.status,
                         readAfter |-> Len(race.writes), wrote |-> FALSE]]
    /\ UNCHANGED <<authVars, concerts, concertSeq, songs, songSeq, parts, svc,
                   pending, hist, reply>>

\* update_song of caller c from its store.update on
RaceUpdate(c) ==
    /\ race.calls[c].pc = "read"
    /\ \E fail \in {"", "connection reset"} :
        LET r == update_song_update(race.calls[c].record, fail)
        IN  /\ songs' = r.table
            /\ race' = [race EXCEPT
                           !.calls[c].pc = "done",
                           !.calls[c].status = r.status,
                           !.calls[c].wrote = (fail = ""),
                           !.writes = IF fail = "" THEN Append(@, c) ELSE @]
    /\ UNCHANGED <<authVars, concerts, concertSeq, songSeq, parts, svc, pending, hist,
                   reply>>

RaceNext == \E c \in Callers : RaceGet(c) \/ RaceUpdate(c)

SpecRace == RaceInit /\ [][RaceNext]_vars

\* the fields a call's mask names
NamedBy(c) == {race.calls[c].mask.paths[k] : k \in 1..Len(race.calls[c].mask.paths)}

\* both calls are selective, their masks share no name, both read the row
\* before either wrote, and both store.update statements ran, a's before b's
LostUpdateRun(a, b) ==
    /\ a # b
    /\ race.calls[a].pc = "done" /\ race.calls[b].pc = "done"
    /\ NamedBy(a) # {} /\ NamedBy(b) # {} /\ NamedBy(a) \cap NamedBy(b) = {}
    /\ race.calls[a].readAfter = 0 /\ race.calls[b].readAfter = 0
    /\ race.writes = <<a, b>>

\* C6: when two selective update_song calls on one song with disjoint masks
\* both read the row before either writes, both return OK, the stored row is
\* the full row of the later store.update, and every field only the earlier
\* call named holds the value it had before the two updates.
C6_LaterFullRowWins ==
    \A a \in Callers, b \in Callers :
        LostUpdateRun(a, b) =>
            /\ race.calls[a].status = "OK"
            /\ race.calls[b].status = "OK"
            /\ songs[RaceId] = race.calls[b].record
            /\ race.calls[a].existing = race.calls[b].existing
            /\ \A f \in NamedBy(a) : songs[RaceId][f] = race.calls[a].existing[f]

\* c1 set the title, c2 the description; both answered OK and the title c1
\* wrote is gone
C6_Witness ==
    /\ LostUpdateRun("c1", "c2")
    /\ race.calls["c1"].mask = Mask(<<"title">>)
    /\ race.calls["c2"].mask = Mask(<<"description">>)
    /\ race.calls["c1"].status = "OK"
    /\ race.calls["c2"].status = "OK"
    /\ race.calls["c1"].record.title = <<"c">>
    /\ race.calls["c1"].existing.title = <<"a">>
    /\ songs[RaceId].title = <<"a">>
    /\ songs[RaceId].description = Some(<<"e">>)

-----------------------------------------------------------------------------
(* Calls of the three services' handlers. A call of update_song or         *)
(* update_concert is two steps, its store.get and its store.update, and    *)
(* other calls are served in between; one update call at a time is between *)
(* its two steps here, two at a time are SpecRace.                         *)

\* the outcome of a statement in these runs
StoreFailures == {"", "connection reset"}

\* the resource names of get and delete calls
Names ==
    {<<>>, <<"x">>, <<"0">>, <<"-", "1">>, <<" ", "1", " ">>, <<"+", "2">>,
     <<"1">>, <<"2">>}

\* the page sizes of list calls
PageSizes == {0 - 1, 0, 1, MaxPageSize + 1}

\* the Song messages of create and update calls
Songs(ids) ==
    {[id |-> i, title |-> t, description |-> d, link |-> l] :
        i \in ids, t \in {<<>>, <<" ">>, <<"a">>, <<"c">>},
        d \in {<<>>, <<" ">>, <<"e">>}, l \in {<<>>, <<"m">>}}

\* the masks of update_song calls
SongMasks ==
    {NoMask, Mask(<<>>), Mask(<<"title">>), Mask(<<"description">>),
     Mask(<<"link", "title">>), Mask(<<"artist">>), Mask(<<"title", "artist">>)}

\* the Concert messages of create and update calls
Concerts(ids) ==
    {[id |-> i, name |-> n, date |-> d] :
        i \in ids, n \in {<<>>, <<" ">>, <<"a">>, <<"c">>},
        d \in {NoTimestamp, Timestamp(SecondsPerDay + 5, 7), Timestamp(5, 0 - 1)}}

\* the masks of update_concert calls
ConcertMasks ==
    {NoMask, Mask(<<>>), Mask(<<"name">>), Mask(<<"date">>),
     Mask(<<"venue">>), Mask(<<"name", "venue">>)}

\* the request of a call: the payload, the mask, the resource name, the page size
Req(payload, mask, name, page_size) ==
    [payload |-> payload, mask |-> mask, name |-> name, page_size |-> page_size]

\* the answer to a call: the handler, the failure of the statement its store
\* ran (none when the statement ran through or no store was invoked), the
\* request (of an update call that went on to its store.update, the mask),
\* the handler's outcome r, the record handed to store.update, and whether
\* the table is another than before
Reply(op, fail, req, r, record, changed) ==
    [op |-> op, fail |-> IF r.calls = <<>> THEN "" ELSE fail, req |-> req,
     status |-> r.status, message |-> r.message,
     calls |-> r.calls, body |-> r.body, record |-> record, changed |-> changed]

\* the history after a create call with this payload was answered r
AfterCreate(r, payload) ==
    IF r.status # "OK" THEN hist
    ELSE [handed |-> Append(hist.handed, r.body.id),
          deleted |-> hist.deleted,
          created |-> Some([id |-> r.body.id, payload |-> payload.v])]

\* the history after an update call was answered r
AfterUpdate(r) ==
    IF r.status # "OK" THEN hist ELSE [hist EXCEPT !.created = None]

\* the history after a delete call for this name was answered r
AfterDelete(r, name) ==
    IF r.status # "OK" THEN hist
    ELSE [hist EXCEPT !.deleted = @ \cup {parse_id(name).id}, !.created = None]

\* create_song calls with these payloads, while the sequence is at most `most`
CreateSongOf(payloads, most) ==
    /\ reply.op = "none"
    /\ svc = "song"
    /\ songSeq <= most
    /\ \E song \in payloads, fail \in StoreFailures :
        LET r == create_song(song, fail)
        IN  /\ songs' = r.table
            /\ songSeq' = r.seq
            /\ hist' = AfterCreate(r, song)
            /\ reply' = Reply("create_song", fail, Req(song, NoMask, <<>>, 0), r,
                              NoSongRecord, r.table # songs)
    /\ UNCHANGED <<authVars, concerts, concertSeq, parts, svc, pending, race>>

CreateSong == CreateSongOf({None} \cup {Some(s) : s \in Songs({0})}, MaxId)

\* get_song calls for these names
GetSongOf(names) ==
    /\ reply.op = "none"
    /\ svc = "song"
    /\ \E name \in names, fail \in StoreFailures :
        LET r == get_song(name, fail)
        IN  reply' = Reply("get_song", fail, Req(None, NoMask, name, 0), r, NoSongRecord, FALSE)
    /\ UNCHANGED <<authVars, concerts, concertSeq, songVars>>

GetSong == GetSongOf(Names)

\* list_songs calls with these page sizes
ListSongsOf(page_sizes) ==
    /\ reply.op = "none"
    /\ svc = "song"
    /\ \E page_size \in page_sizes, fail \in StoreFailures :
        LET r == list_songs(page_size, fail)
        IN  reply' = Reply("list_songs", fail, Req(None, NoMask, <<>>, page_size), r,
                           NoSongRecord, FALSE)
    /\ UNCHANGED <<authVars, concerts, concertSeq, songVars>>

ListSongs == ListSongsOf(PageSizes)

\* update_song up to its store.update: it answers at once when it stops here
UpdateSongGet ==
    /\ reply.op = "none"
    /\ svc = "song"
    /\ pending = {}
    /\ \E song \in {None} \cup {Some(s) : s \in Songs(0..MaxId)}, mask \in SongMasks,
          fail \in StoreFailures :
        LET r == update_song_get(song, mask, fail)
        IN  IF r.pending
            THEN /\ pending' = pending \cup {[record |-> r.record, mask |-> mask]}
                 /\ reply' = reply
            ELSE /\ pending' = pending
                 /\ reply' = Reply("update_song", fail, Req(song, mask, <<>>, 0), r.result,
                                   NoSongRecord, FALSE)
    /\ UNCHANGED <<authVars, concerts, concertSeq, songs, songSeq, parts, svc, race, hist>>

\* update_song from its store.update on
UpdateSongUpdate ==
    /\ reply.op = "none"
    /\ svc = "song"
    /\ \E p \in pending, fail \in StoreFailures :
        LET r == update_song_update(p.record, fail)
        IN  /\ songs' = r.table
            /\ pending' = pending \ {p}
            /\ hist' = AfterUpdate(r)
            /\ reply' = Reply("update_song", fail, Req(None, p.mask, <<>>, 0), r, p.record,
                              r.table # songs)
    /\ UNCHANGED <<authVars, concerts, concertSeq, songSeq, parts, svc, race>>

\* delete_song calls for these names
DeleteSongOf(names) ==
    /\ reply.op = "none"
    /\ svc = "song"
    /\ \E name \in names, fail \in StoreFailures :
        LET r == delete_song(name, fail)
        IN  /\ songs' = r.table
            /\ hist' = AfterDelete(r, name)
            /\ reply' = Reply("delete_song", fail, Req(None, NoMask, name, 0), r,
                              NoSongRecord, r.table # songs)
    /\ UNCHANGED <<authVars, concerts, concertSeq, songSeq, parts, svc, pending, race>>

DeleteSong == DeleteSongOf(Names)

\* create_concert calls with these payloads, while the sequence is at most `most`
CreateConcertOf(payloads, most) ==
    /\ reply.op = "none"
    /\ svc = "concert"
    /\ concertSeq <= most
    /\ \E concert \in payloads, fail \in StoreFailures, default \in ColumnDefaults :
        LET r == create_concert(concert, fail, default)
        IN  /\ concerts' = r.table
            /\ concertSeq' = r.seq
            /\ hist' = AfterCreate(r, concert)
            /\ reply' = Reply("create_concert", fail, Req(concert, NoMask, <<>>, 0), r,
                              NoConcertRecord, r.table # concerts)
    /\ UNCHANGED <<authVars, songs, songSeq, parts, svc, pending, race>>

CreateConcert == CreateConcertOf({None} \cup {Some(c) : c \in Concerts({0})}, MaxId)

\* get_concert calls for these names
GetConcertOf(names) ==
    /\ reply.op = "none"
    /\ svc = "concert"
    /\ \E name \in names, fail \in StoreFailures :
        LET r == get_concert(name, fail)
        IN  reply' = Reply("get_concert", fail, Req(None, NoMask, name, 0), r,
                           NoConcertRecord, FALSE)
    /\ UNCHANGED <<authVars, concerts, concertSeq, songVars>>

GetConcert == GetConcertOf(Names)

\* list_concerts calls with these page sizes
ListConcertsOf(page_sizes) ==
    /\ reply.op = "none"
    /\ svc = "concert"
    /\ \E page_size \in page_sizes, fail \in StoreFailures :
        LET r == list_concerts(page_size, fail)
        IN  reply' = Reply("list_concerts", fail, Req(None, NoMask, <<>>, page_size), r,
                           NoConcertRecord, FALSE)
    /\ UNCHANGED <<authVars, concerts, concertSeq, songVars>>

ListConcerts == ListConcertsOf(PageSizes)

\* update_concert up to its store.update: it answers at once when it stops here
UpdateConcertGet ==
    /\ reply.op = "none"
    /\ svc = "concert"
    /\ pending = {}
    /\ \E concert \in {None} \cup {Some(c) : c \in Concerts(0..MaxId)},
          mask \in ConcertMasks, fail \in StoreFailures :
        LET r == update_concert_get(concert, mask, fail)
        IN  IF r.pending
            THEN /\ pending' = pending \cup {[record |-> r.record, mask |-> mask]}
                 /\ reply' = reply
            ELSE /\ pending' = pending
                 /\ reply' = Reply("update_concert", fail, Req(concert, mask, <<>>, 0),
                                   r.result, NoConcertRecord, FALSE)
    /\ UNCHANGED <<authVars, concerts, concertSeq, songs, songSeq, parts, svc, race, hist>>

\* update_concert from its store.update on
UpdateConcertUpdate ==
    /\ reply.op = "none"
    /\ svc = "concert"
    /\ \E p \in pending, fail \in StoreFailures :
        LET r == update_concert_update(p.record, fail)
        IN  /\ concerts' = r.table
            /\ pending' = pending \ {p}
            /\ hist' = AfterUpdate(r)
            /\ reply' = Reply("update_concert", fail, Req(None, p.mask, <<>>, 0), r, p.record,
                              r.table # concerts)
    /\ UNCHANGED <<authVars, concertSeq, songs, songSeq, parts, svc, race>>

\* delete_concert calls for these names
DeleteConcertOf(names) ==
    /\ reply.op = "none"
    /\ svc = "concert"
    /\ \E name \in names, fail \in StoreFailures :
        LET r == delete_concert(name, fail)
        IN  /\ concerts' = r.table
            /\ hist' = AfterDelete(r, name)
            /\ reply' = Reply("delete_concert", fail, Req(None, NoMask, name, 0), r,
                              NoConcertRecord, r.table # concerts)
    /\ UNCHANGED <<authVars, concertSeq, songs, songSeq, parts, svc, pending, race>>

DeleteConcert == DeleteConcertOf(Names)

\* the Participation messages of create and update calls
Participations ==
    {[tg_id |-> t, song_id |-> s, role_title |-> r] :
        t \in {0, 7}, s \in {0, 1}, r \in {<<>>, <<" ">>, <<"v">>, <<"g">>}}
    \cup {[tg_id |-> 20, song_id |-> 10, role_title |-> <<"D", "r", "u", "m", "s">>]}

\* the masks of update_participation calls
ParticipationMasks ==
    {NoMask, Mask(<<"role_title">>), Mask(<<"tg_id">>),
     Mask(<<"role_title", "song_id">>), Mask(<<"name">>),
     Mask(<<"role_title", "name">>)}

\* the resource names of participation get and delete calls
ParticipationNames ==
    {<<>>, <<"1", ":", "7">>, <<"1", ":", "7", ":", "v">>, <<"1", ":", "7", ":", "g">>,
     <<" ", "1", ":", "7", " ", ":", "v">>, <<"0", ":", "7", ":", "v">>,
     <<"1", ":", "0", ":", "v">>, <<"1", ":", "7", ":", " ">>,
     <<"x", ":", "7", ":", "v">>, <<"1", ":", "7", ":", "v", ":", "g">>,
     <<"1", "0", ":", "2", "0", ":", "D", "r", "u", "m", "s">>}

\* create_participation calls with these payloads
CreateParticipationOf(payloads) ==
    /\ reply.op = "none"
    /\ svc = "participation"
    /\ \E participation \in payloads, fail \in StoreFailures :
        LET r == create_participation(participation, fail)
        IN  /\ parts' = r.table
            /\ reply' = Reply("create_participation", fail,
                              Req(participation, NoMask, <<>>, 0), r,
                              NoParticipationRecord, r.table # parts)
    /\ UNCHANGED <<authVars, concerts, concertSeq, songs, songSeq, svc, pending, race, hist>>

CreateParticipation ==
    CreateParticipationOf({None} \cup {Some(p) : p \in Participations})

\* get_participation calls for these names
GetParticipationOf(names) ==
    /\ reply.op = "none"
    /\ svc = "participation"
    /\ \E name \in names, fail \in StoreFailures :
        LET r == get_participation(name, fail)
        IN  reply' = Reply("get_participation", fail, Req(None, NoMask, name, 0), r,
                           NoParticipationRecord, FALSE)
    /\ UNCHANGED <<authVars, concerts, concertSeq, songVars>>

GetParticipation == GetParticipationOf(ParticipationNames)

\* list_participations calls with these page sizes
ListParticipationsOf(page_sizes) ==
    /\ reply.op = "none"
    /\ svc = "participation"
    /\ \E page_size \in page_sizes, rows \in ParticipationOrders, fail \in StoreFailures :
        LET r == list_participations(page_size, rows, fail)
        IN  reply' = Reply("list_participations", fail, Req(None, NoMask, <<>>, page_size), r,
                           NoParticipationRecord, FALSE)
    /\ UNCHANGED <<authVars, concerts, concertSeq, songVars>>

ListParticipations == ListParticipationsOf(PageSizes)

UpdateParticipation ==
    /\ reply.op = "none"
    /\ svc = "participation"
    /\ \E participation \in {None} \cup {Some(p) : p \in Participations},
          mask \in ParticipationMasks, fail \in StoreFailures :
        LET r == update_participation(participation, mask, fail)
        IN  /\ parts' = r.table
            /\ reply' = Reply("update_participation", fail, Req(participation, mask, <<>>, 0),
                              r, NoParticipationRecord, r.table # parts)
    /\ UNCHANGED <<authVars, concerts, concertSeq, songs, songSeq, svc, pending, race, hist>>

\* delete_participation calls for these names
DeleteParticipationOf(names) ==
    /\ reply.op = "none"
    /\ svc = "participation"
    /\ \E name \in names, fail \in StoreFailures :
        LET r == delete_participation(name, fail)
        IN  /\ parts' = r.table
            /\ reply' = Reply("delete_participation", fail, Req(None, NoMask, name, 0), r,
                              NoParticipationRecord, r.table # parts)
    /\ UNCHANGED <<authVars, concerts, concertSeq, songs, songSeq, svc, pending, race, hist>>

DeleteParticipation == DeleteParticipationOf(ParticipationNames)

\* the tables are empty at start-up; the clients of a run call one service
Init ==
    /\ now = 0
    /\ ttl = 1
    /\ issued = {}
    /\ concerts = EmptyTable
    /\ concertSeq = 1
    /\ songs = EmptyTable
    /\ songSeq = 1
    /\ parts = {}
    /\ svc \in {"song", "concert", "participation"}
    /\ pending = {}
    /\ race = <<>>
    /\ hist = NoHistory
    /\ reply = NoReply

Next ==
    \/ CreateSong \/ GetSong \/ ListSongs \/ UpdateSongGet \/ UpdateSongUpdate
    \/ DeleteSong
    \/ CreateConcert \/ GetConcert \/ ListConcerts \/ UpdateConcertGet
    \/ UpdateConcertUpdate \/ DeleteConcert
    \/ CreateParticipation \/ GetParticipation \/ ListParticipations
    \/ UpdateParticipation \/ DeleteParticipation
    \/ Deliver

Spec == Init /\ [][Next]_vars

-----------------------------------------------------------------------------
(* The stores over their lives: creates, gets, lists and deletes on tables *)
(* of several rows, with payloads that differ in little.                   *)

\* the resource names of get and delete calls: the identifiers a store hands
\* out, and the one after
StoreNames == {to_string(i) : i \in 1..(MaxRows + 1)}

\* the page sizes of list calls
StorePageSizes ==
    {0 - 2147483647 - 1, 0 - 1, 0, 1, 2, DefaultPageSize, MaxPageSize - 1, MaxPageSize,
     MaxPageSize + 1, 10000, 2147483647}

\* the Song payloads of create calls: the id a caller fills in is 0 or that of
\* the first song
StoreSongs ==
    {Some([id |-> i, title |-> t, description |-> <<>>, link |-> <<>>]) :
        i \in {0, 1}, t \in {<<"a">>, <<"c">>}}

\* the Concert payloads of create calls
StoreConcerts ==
    {Some([id |-> i, name |-> n, date |-> NoTimestamp]) :
        i \in {0, 1}, n \in {<<"a">>, <<"c">>}}

\* the Participation payloads of create calls: two songs, one person, two roles
StoreParticipations ==
    {Some([tg_id |-> 7, song_id |-> s, role_title |-> r]) :
        s \in {1, 2}, r \in {<<"v">>, <<"g">>}}

\* the resource names of those participations
StoreParticipationNames ==
    {to_string(p.v.song_id) \o <<":">> \o to_string(p.v.tg_id) \o <<":">>
        \o p.v.role_title : p \in StoreParticipations}

SongCreates == CreateSongOf(StoreSongs, MaxRows)
SongGets == GetSongOf(StoreNames)
SongLists == ListSongsOf(StorePageSizes)
SongDeletes == DeleteSongOf(StoreNames)

ConcertCreates == CreateConcertOf(StoreConcerts, MaxRows)
ConcertGets == GetConcertOf(StoreNames)
ConcertLists == ListConcertsOf(StorePageSizes)
ConcertDeletes == DeleteConcertOf(StoreNames)

ParticipationCreates ==
    /\ Cardinality(parts) < MaxRows
    /\ CreateParticipationOf(StoreParticipations)
ParticipationGets == GetParticipationOf(StoreParticipationNames)
ParticipationLists == ListParticipationsOf(StorePageSizes)
ParticipationDeletes == DeleteParticipationOf(StoreParticipationNames)

StoreInit == Init

StoreNext ==
    \/ SongCreates \/ SongGets \/ SongLists \/ SongDeletes
    \/ ConcertCreates \/ ConcertGets \/ ConcertLists \/ ConcertDeletes
    \/ ParticipationCreates \/ ParticipationGets \/ ParticipationLists
    \/ ParticipationDeletes
    \/ Deliver

SpecStore == StoreInit /\ [][StoreNext]_vars

-----------------------------------------------------------------------------
(* Properties of the handlers, under Spec.                                 *)

\* the reply is that of an update call
Update == reply.op \in {"update_song", "update_concert", "update_participation"}

\* the field names the service's update knows
Known ==
    IF svc = "song" THEN {"title", "description", "link"}
    ELSE IF svc = "concert" THEN {"name", "date"}
    ELSE {"role_title", "tg_id", "song_id"}

\* the mask carries a name the service's update does not know
Unknown(mask) == \E k \in 1..Len(mask.paths) : mask.paths[k] \notin Known

\* the table of the service
Table == IF svc = "song" THEN songs ELSE concerts

\* C9, as claimed: an update call whose mask carries an unknown name is
\* answered InvalidArgument and leaves the table as it was.
C9_UnknownNameInvalidArgument ==
    Update /\ Unknown(reply.req.mask) =>
        /\ reply.status = "InvalidArgument"
        /\ ~reply.changed

\* C9, amended: an update call whose mask carries an unknown name, wherever in
\* the mask, never reaches store.update and leaves the table as it was. Its
\* answer is InvalidArgument, except that update_song and update_concert,
\* which look at the mask after their store.get, answer NotFound when the
\* payload's identifier is not stored and Internal when the store.get fails.
C9_UnknownNameNeverApplied ==
    /\ \A p \in pending : ~Unknown(p.mask)
    /\ Update /\ Unknown(reply.req.mask) =>
        /\ ~reply.changed
        /\ reply.calls \in {<<>>, <<"get">>}
        /\ reply.status \in {"InvalidArgument", "NotFound", "Internal"}
        /\ reply.op = "update_participation" =>
              reply.status = "InvalidArgument" /\ reply.calls = <<>>
        /\ reply.status # "InvalidArgument" => reply.calls = <<"get">>
        /\ reply.op # "update_participation" /\ reply.req.payload.some =>
              /\ reply.status = "NotFound" =>
                    reply.req.payload.v.id \notin DOMAIN Table
              /\ reply.req.payload.v.id \in DOMAIN Table /\ reply.status # "Internal" =>
                    /\ reply.status = "InvalidArgument"
                    /\ reply.message = <<"unsupported update_mask path">>

\* update_song of a stored song under mask [title, artist] with another title:
\* InvalidArgument after the store.get, and the stored title is the old one
C9_Witness ==
    /\ reply.op = "update_song"
    /\ reply.req.mask = Mask(<<"title", "artist">>)
    /\ reply.req.payload.some
    /\ reply.req.payload.v.id \in DOMAIN songs
    /\ reply.status = "InvalidArgument"
    /\ reply.calls = <<"get">>
    /\ reply.req.payload.v.title = <<"c">>
    /\ songs[reply.req.payload.v.id].title = <<"a">>

\* the request carries an empty required string or a zero required
\* identifier: a blank title, name or role_title, a zero id, song_id or tg_id
\* in the payload; a resource name that is blank, zero, or, of a
\* participation, with a zero or blank piece
Incomplete ==
    LET v == reply.req.payload.v
        name == reply.req.name
        pieces == splitn3(name)
        Zero(piece) == parse_u64(trim(piece)) = [ok |-> TRUE, value |-> 0]
    IN  CASE reply.op = "create_song" -> reply.req.payload.some /\ trim(v.title) = <<>>
          [] reply.op = "create_concert" -> reply.req.payload.some /\ trim(v.name) = <<>>
          [] reply.op = "update_song" ->
                reply.req.payload.some /\ (v.id = 0 \/ trim(v.title) = <<>>)
          [] reply.op = "update_concert" ->
                reply.req.payload.some /\ (v.id = 0 \/ trim(v.name) = <<>>)
          [] reply.op \in {"create_participation", "update_participation"} ->
                /\ reply.req.payload.some
                /\ v.tg_id = 0 \/ v.song_id = 0 \/ trim(v.role_title) = <<>>
          [] reply.op \in {"get_song", "delete_song", "get_concert", "delete_concert"} ->
                trim(name) = <<>> \/ parse_i64(trim(name)) = [ok |-> TRUE, value |-> 0]
          [] reply.op \in {"get_participation", "delete_participation"} ->
                \/ trim(name) = <<>>
                \/ /\ Len(pieces) = 3
                   /\ Zero(pieces[1]) \/ Zero(pieces[2]) \/ trim(pieces[3]) = <<>>
          [] OTHER -> FALSE

\* C10, as claimed: a create, get, update or delete call with an empty
\* required string or a zero required identifier is answered InvalidArgument
\* and invokes no store operation.
C10_RejectedBeforeStore ==
    Incomplete => reply.status = "InvalidArgument" /\ reply.calls = <<>>

\* the payload of an update_song or update_concert call has a blank title or
\* name and a non-zero identifier
BlankUpdate ==
    /\ reply.op \in {"update_song", "update_concert"}
    /\ reply.req.payload.some
    /\ reply.req.payload.v.id # 0
    /\ trim(IF reply.op = "update_song" THEN reply.req.payload.v.title
            ELSE reply.req.payload.v.name) = <<>>

\* C10, amended: a call with an empty required string or a zero required
\* identifier is answered InvalidArgument with no store operation invoked,
\* unless it is an update_song or update_concert call whose payload has a
\* blank title or name and a non-zero identifier. That call invokes store.get
\* first; when it ends there it is answered InvalidArgument, NotFound (the
\* identifier is not stored) or Internal, with the table as it was, and it
\* goes on to store.update only with a title or name that is not blank.
C10_ValidatedBeforeWrite ==
    /\ Incomplete /\ ~BlankUpdate =>
        /\ reply.status = "InvalidArgument"
        /\ reply.calls = <<>>
        /\ ~reply.changed
    /\ BlankUpdate =>
        /\ reply.calls = <<"get">>
        /\ reply.status \in {"InvalidArgument", "NotFound", "Internal"}
        /\ ~reply.changed
        /\ reply.status = "NotFound" => reply.req.payload.v.id \notin DOMAIN Table
    /\ \A p \in pending :
        trim(IF svc = "song" THEN p.record.title ELSE p.record.name) # <<>>
    /\ reply.op \in {"update_song", "update_concert"} /\ "update" \in Range(reply.calls) =>
        trim(IF svc = "song" THEN reply.record.title ELSE reply.record.name) # <<>>

\* update_song with a blank title for an identifier that is not stored: the
\* store.get is invoked and the answer is NotFound
C10_Witness ==
    /\ reply.op = "update_song"
    /\ BlankUpdate
    /\ reply.req.mask = NoMask
    /\ reply.calls = <<"get">>
    /\ reply.status = "NotFound"
    /\ reply.req.payload.v.id \notin DOMAIN songs

\* C11: every stored song has a non-zero identifier and a title that is not
\* blank, every stored concert a non-zero identifier and a name that is not
\* blank, every stored participation a non-zero song id, a non-zero person id
\* and a role that is not blank; so has every record an update call is about
\* to write.
C11_StoredRecordsComplete ==
    /\ \A i \in DOMAIN songs :
        i # 0 /\ songs[i].id = i /\ trim(songs[i].title) # <<>>
    /\ \A i \in DOMAIN concerts :
        i # 0 /\ concerts[i].id = i /\ trim(concerts[i].name) # <<>>
    /\ \A p \in parts :
        p.song_id # 0 /\ p.person_id # 0 /\ trim(p.role) # <<>>
    /\ \A p \in pending :
        p.record.id # 0
            /\ trim(IF svc = "song" THEN p.record.title ELSE p.record.name) # <<>>

\* an update_song call whose merge left the title blank has been turned away
\* with a song stored
C11_Witness ==
    /\ reply.op = "update_song"
    /\ reply.status = "InvalidArgument"
    /\ reply.message = <<"song title is required">>
    /\ reply.req.payload.v.id \in DOMAIN songs
    /\ trim(songs[reply.req.payload.v.id].title) # <<>>

\* the step answers an update_song or update_concert call that names a
\* non-zero identifier, at its store.get or at its store.update
AnswersUpdate ==
    /\ reply.op = "none"
    /\ reply'.op \in {"update_song", "update_concert"}
    /\ \/ "update" \in Range(reply'.calls)
       \/ reply'.req.payload.some /\ reply'.req.payload.v.id # 0

\* the identifier that call names
UpdatedId ==
    IF "update" \in Range(reply'.calls) THEN reply'.record.id
    ELSE reply'.req.payload.v.id

\* C13: a step that answers an update_song or update_concert call for a
\* non-zero identifier leaves the table's keys as they were: update never
\* creates a record. When the identifier is not stored the answer is NotFound
\* (Internal when the statement fails) and the table is as it was, be it at
\* the call's store.get or, the record deleted since, at its store.update; an
\* answer of NotFound is given for no stored identifier. When the identifier is
\* stored and the store.update runs, the answer is the row now stored under
\* the identifier the call asked for, the other rows are as they were. The
\* step from store.get to store.update changes no table.
C13_UpdateNeverCreates ==
    [][/\ AnswersUpdate =>
            LET id == UpdatedId
            IN  /\ DOMAIN Table' = DOMAIN Table
                /\ id \notin DOMAIN Table =>
                      reply'.status \in {"NotFound", "Internal"} /\ Table' = Table
                /\ reply'.status = "NotFound" => id \notin DOMAIN Table /\ Table' = Table
                /\ reply'.status # "OK" => Table' = Table
                /\ reply'.status = "OK" =>
                      /\ id \in DOMAIN Table
                      /\ reply'.calls = <<"get", "update">>
                      /\ reply'.body.id = id
                      /\ Table'[id] = reply'.record
                      /\ reply'.body = IF svc = "song" THEN record_to_song(songs'[id])
                                       ELSE record_to_concert(concerts'[id])
                      /\ \A j \in DOMAIN Table \ {id} : Table'[j] = Table[j]
       /\ pending' # pending /\ reply' = reply => Table' = Table]_vars

\* an update_song call read its song, the song was deleted, and its
\* store.update was answered NotFound with no row stored
C13_Witness ==
    /\ reply.op = "update_song"
    /\ reply.calls = <<"get", "update">>
    /\ reply.status = "NotFound"
    /\ reply.record.id \in hist.deleted
    /\ reply.record.id \notin DOMAIN songs

\* what get_song returns for a text a create_song call submitted
Returned(text) == IF trim(text) = <<>> THEN <<>> ELSE text

\* C15: a get_song of the identifier the last create_song returned, no write
\* having come after that create, is answered (unless the statement fails)
\* with that identifier, the title as submitted, and for description and link
\* the text as submitted when it is not blank and the empty string when it is
\* empty or blank. A get_song of an identifier no create has returned is
\* answered NotFound.
C15_CreateThenGet ==
    reply.op = "get_song" /\ parse_id(reply.req.name).ok /\ reply.status # "Internal" =>
        LET id == parse_id(reply.req.name).id
        IN  /\ hist.created.some /\ hist.created.v.id = id =>
                /\ reply.status = "OK"
                /\ reply.body.id = id
                /\ reply.body.title = hist.created.v.payload.title
                /\ reply.body.description = Returned(hist.created.v.payload.description)
                /\ reply.body.link = Returned(hist.created.v.payload.link)
            /\ id \notin Range(hist.handed) => reply.status = "NotFound"

\* a song created with a blank description and a link has been read back:
\* the description is empty, the link is the one submitted
C15_Witness ==
    /\ reply.op = "get_song"
    /\ reply.status = "OK"
    /\ hist.created.some
    /\ hist.created.v.id = parse_id(reply.req.name).id
    /\ hist.created.v.payload.description = <<" ">>
    /\ hist.created.v.payload.link = <<"m">>
    /\ reply.body.description = <<>>
    /\ reply.body.link = <<"m">>

\* C23, as claimed: the message of an Internal answer holds none of the
\* diagnostics the database produced; it is the same whatever the failure.
C23_InternalMessageGeneric ==
    reply.op # "none" /\ reply.status = "Internal" =>
        \A d \in Diagnostics : d \notin Range(reply.message)

\* the step answers a call whose handler invoked its store
AnswersFromStore ==
    /\ reply.op = "none"
    /\ reply'.op # "none"
    /\ reply'.calls # <<>>

\* the store the step's call went to finds no row under the key of the call
KeyMissing ==
    LET op == reply'.op
        at_update == "update" \in Range(reply'.calls)
    IN  CASE op \in {"get_song", "delete_song"} ->
                 parse_id(reply'.req.name).id \notin DOMAIN songs
          [] op = "update_song" ->
                 (IF at_update THEN reply'.record.id ELSE reply'.req.payload.v.id)
                     \notin DOMAIN songs
          [] op \in {"get_concert", "delete_concert"} ->
                 parse_id(reply'.req.name).id \notin DOMAIN concerts
          [] op = "update_concert" ->
                 (IF at_update THEN reply'.record.id ELSE reply'.req.payload.v.id)
                     \notin DOMAIN concerts
          [] op \in {"get_participation", "delete_participation"} ->
                 LET key == parse_participation_name(reply'.req.name)
                 IN  [song_id |-> key.song_id, person_id |-> key.tg_id,
                      role |-> key.role_title] \notin parts
          [] op = "update_participation" ->
                 [song_id |-> reply'.req.payload.v.song_id,
                  person_id |-> reply'.req.payload.v.tg_id,
                  role |-> reply'.req.payload.v.role_title] \notin parts
          [] OTHER -> FALSE

\* the error the store returned in the step: a failed statement is
\* StoreError::Database, a statement that found no row StoreError::NotFound
StoreErrorOfStep ==
    IF reply'.fail # "" THEN "Database"
    ELSE IF KeyMissing THEN "NotFound"
    ELSE ""

\* C24: in every handler of the three services, a call whose store returned
\* NotFound is answered NotFound, one whose store returned a database error
\* is answered Internal, and a call is answered NotFound or Internal only
\* when it invoked the store and the store returned that error; after a store
\* error the answer is never OK and the table is as it was.
C24_StoreErrorsMapped ==
    [][/\ AnswersFromStore =>
            /\ StoreErrorOfStep = "NotFound" => reply'.status = "NotFound"
            /\ StoreErrorOfStep = "Database" => reply'.status = "Internal"
            /\ StoreErrorOfStep = "" => reply'.status \in {"OK", "InvalidArgument"}
            /\ StoreErrorOfStep # "" =>
                  /\ ~reply'.changed
                  /\ songs' = songs /\ concerts' = concerts /\ parts' = parts
       /\ reply.op = "none" /\ reply'.op # "none" /\ reply'.calls = <<>> =>
            reply'.status \notin {"NotFound", "Internal"}]_vars

\* a store found no row for an update_participation call that passed validation
C24_Witness ==
    /\ reply.op = "update_participation"
    /\ reply.status = "NotFound"
    /\ reply.calls = <<"update">>
    /\ reply.fail = ""
    /\ parts # {}

\* C27: an update_participation call whose mask carries tg_id, song_id or
\* any name other than role_title, in whatever position, is answered
\* InvalidArgument without a store operation and with the table as it was; a
\* call with a complete payload and a mask of role_title alone, or none,
\* goes to store.update.
C27_ParticipationMaskRoleOnly ==
    reply.op = "update_participation" =>
        LET paths == Range(paths_of(reply.req.mask))
        IN  /\ ~(paths \subseteq {"role_title"}) =>
                  /\ reply.status = "InvalidArgument"
                  /\ reply.calls = <<>>
                  /\ ~reply.changed
            /\ /\ paths \subseteq {"role_title"}
               /\ reply.req.payload.some
               /\ validate_participation(reply.req.payload.v) = <<>>
               => reply.calls = <<"update">>

\* a stored participation came with mask [role_title, song_id] and was refused
C27_Witness ==
    /\ reply.op = "update_participation"
    /\ reply.req.mask = Mask(<<"role_title", "song_id">>)
    /\ reply.req.payload.some
    /\ [song_id |-> reply.req.payload.v.song_id,
        person_id |-> reply.req.payload.v.tg_id,
        role |-> reply.req.payload.v.role_title] \in parts
    /\ reply.status = "InvalidArgument"
    /\ reply.message = <<"updating tg_id or song_id is not supported">>

\* the digits of a name that is an integer above zero: blanks around it and a
\* leading "+" aside, all digits, not all of them "0"; <<>> for any other name
PositiveDigits(name) ==
    LET t == trim(name)
        d == IF t # <<>> /\ t[1] = "+" THEN Tail(t) ELSE t
    IN  IF d # <<>> /\ (\A k \in 1..Len(d) : IsDigit(d[k])) /\ (\E k \in 1..Len(d) : d[k] # "0")
        THEN d
        ELSE <<>>

\* the three components of a name songId:personId:role, the role being all
\* that follows the second colon; <<>> when a colon is missing, an id is not
\* an integer above zero or the role is blank
Triplet(name) ==
    LET i == colon(name)
        rest == SubSeq(name, i + 1, Len(name))
        j == colon(rest)
    IN  IF i = 0 \/ j = 0 THEN <<>>
        ELSE LET song == SubSeq(name, 1, i - 1)
                 person == SubSeq(rest, 1, j - 1)
                 role == SubSeq(rest, j + 1, Len(rest))
             IN  IF \/ PositiveDigits(song) = <<>>
                    \/ PositiveDigits(person) = <<>>
                    \/ trim(song)[1] = "-" \/ trim(person)[1] = "-"
                    \/ trim(role) = <<>>
                 THEN <<>>
                 ELSE <<PositiveDigits(song), PositiveDigits(person), role>>

\* C28: get and delete of songs and concerts answer InvalidArgument, without
\* a store operation, for every name that is not an integer above zero
\* (empty, not a number, zero, negative), and go to the store for every name
\* that is one; get and delete of participations answer InvalidArgument,
\* without a store operation, for every name that is not a triplet
\* songId:personId:role with ids above zero and a role that is not blank, and
\* go to the store under exactly those three components for a name that is.
C28_NamesParsedBeforeStore ==
    /\ reply.op \in {"get_song", "delete_song", "get_concert", "delete_concert"} =>
          IF PositiveDigits(reply.req.name) = <<>>
          THEN /\ reply.status = "InvalidArgument"
               /\ reply.calls = <<>>
               /\ ~reply.changed
          ELSE /\ reply.calls # <<>>
               /\ reply.status # "InvalidArgument"
               /\ reply.op \in {"get_song", "get_concert"} /\ reply.status = "OK" =>
                     to_string(reply.body.id) = PositiveDigits(reply.req.name)
    /\ reply.op \in {"get_participation", "delete_participation"} =>
          IF Triplet(reply.req.name) = <<>>
          THEN /\ reply.status = "InvalidArgument"
               /\ reply.calls = <<>>
               /\ ~reply.changed
          ELSE /\ reply.calls # <<>>
               /\ reply.status # "InvalidArgument"
               /\ reply.op = "get_participation" /\ reply.status = "OK" =>
                     /\ to_string(reply.body.song_id) = Triplet(reply.req.name)[1]
                     /\ to_string(reply.body.tg_id) = Triplet(reply.req.name)[2]
                     /\ reply.body.role_title = Triplet(reply.req.name)[3]

\* the participation stored under 10:20:Drums was fetched by that name, while
\* another is stored
C28_Witness ==
    /\ reply.op = "get_participation"
    /\ reply.req.name = <<"1", "0", ":", "2", "0", ":", "D", "r", "u", "m", "s">>
    /\ reply.status = "OK"
    /\ reply.body = [tg_id |-> 20, song_id |-> 10, role_title |-> <<"D", "r", "u", "m", "s">>]
    /\ Cardinality(parts) > 1

\* the store operation a handler is there to invoke
OwnCall(op) ==
    CASE op \in {"create_song", "create_concert", "create_participation"} -> "create"
      [] op \in {"get_song", "get_concert", "get_participation"} -> "get"
      [] op \in {"list_songs", "list_concerts", "list_participations"} -> "list"
      [] op \in {"delete_song", "delete_concert", "delete_participation"} -> "delete"
      [] op = "update_participation" -> "update"
      [] OTHER -> "get"

\* C32: a handler call invokes each store operation at most once: its own,
\* or for update_song and update_concert one get and then at most one
\* update; a statement that failed ends the call with Internal, and after a
\* store.get that returned an error no store.update is left to follow.
C32_NoRetry ==
    reply.op # "none" =>
        /\ Len(reply.calls) <= 2
        /\ Len(reply.calls) >= 1 => reply.calls[1] = OwnCall(reply.op)
        /\ Len(reply.calls) = 2 =>
              /\ reply.op \in {"update_song", "update_concert"}
              /\ reply.calls = <<"get", "update">>
        /\ reply.fail # "" =>
              /\ reply.status = "Internal"
              /\ ~reply.changed
        /\ /\ reply.op \in {"update_song", "update_concert"}
           /\ reply.calls = <<"get">>
           => pending = {}

\* the store.get of an update_song call for a stored song failed and the call
\* ended there
C32_Witness ==
    /\ reply.op = "update_song"
    /\ reply.calls = <<"get">>
    /\ reply.fail # ""
    /\ reply.status = "Internal"
    /\ reply.req.payload.v.id \in DOMAIN songs
    /\ pending = {}

\* C36: no identifier a delete removed is stored again, and an update_song
\* or update_concert call that read its record before the delete and comes
\* to its store.update after it is answered NotFound (Internal when the
\* statement fails) and changes nothing.
C36_NoResurrection ==
    /\ svc \in {"song", "concert"} => hist.deleted \cap DOMAIN Table = {}
    /\ /\ reply.op \in {"update_song", "update_concert"}
       /\ reply.calls = <<"get", "update">>
       /\ reply.record.id \in hist.deleted
       => /\ reply.status = IF reply.fail = "" THEN "NotFound" ELSE "Internal"
          /\ ~reply.changed
          /\ reply.body.id = 0

\* an update_concert call read its concert, the concert was deleted, and its
\* store.update found no row
C36_Witness ==
    /\ reply.op = "update_concert"
    /\ reply.calls = <<"get", "update">>
    /\ reply.fail = ""
    /\ reply.status = "NotFound"
    /\ reply.record.id \in hist.deleted
    /\ DOMAIN concerts = {}
    /\ pending = {}

\* the triple an update_participation payload identifies
CurrentOf(participation) ==
    [song_id |-> participation.song_id, person_id |-> participation.tg_id,
     role |-> participation.role_title]

\* C37: no update_participation call changes the stored participations. The
\* role it hands to the store is the role of the triple it looks up, so a
\* call answered OK found its triple stored and returns it as sent, with or
\* without mask [role_title], and a call that reaches the store with a
\* triple that is not stored is answered NotFound.
C37_UpdateParticipationKeepsRows ==
    [][reply'.op = "update_participation" =>
          /\ parts' = parts
          /\ ~reply'.changed
          /\ reply'.status = "OK" =>
                /\ CurrentOf(reply'.req.payload.v) \in parts
                /\ reply'.body = reply'.req.payload.v
                /\ reply'.calls = <<"update">>
          /\ /\ reply'.calls = <<"update">>
             /\ reply'.fail = ""
             /\ CurrentOf(reply'.req.payload.v) \notin parts
             => reply'.status = "NotFound"]_vars

\* an update under mask [role_title] succeeded on a stored participation
\* while another role of the same person on the same song is not stored
C37_Witness ==
    /\ reply.op = "update_participation"
    /\ reply.status = "OK"
    /\ reply.req.mask = Mask(<<"role_title">>)
    /\ reply.body.role_title = <<"v">>
    /\ CurrentOf(reply.body) \in parts
    /\ [CurrentOf(reply.body) EXCEPT !.role = <<"g">>] \notin parts

-----------------------------------------------------------------------------
(* Properties of the stores over their lives, under SpecStore.             *)

\* the reply is that of a create_song or create_concert call that stored a row
Created == reply.op \in {"create_song", "create_concert"} /\ reply.status = "OK"

\* C12: the identifiers the creates of a song or concert store have returned
\* differ one from another, whatever was deleted in between; the identifier a
\* create returns is none that an earlier create returned or a delete
\* removed, it is the key the new row is stored under, and it does not come
\* from the payload: a payload carrying an identifier handed out before gets
\* another.
C12_FreshIdentifiers ==
    /\ \A i, j \in 1..Len(hist.handed) : i # j => hist.handed[i] # hist.handed[j]
    /\ hist.deleted \subseteq Range(hist.handed)
    /\ DOMAIN Table \subseteq Range(hist.handed) \ hist.deleted
    /\ Created =>
        /\ reply.body.id # 0
        /\ reply.body.id = hist.handed[Len(hist.handed)]
        /\ reply.body.id \notin hist.deleted
        /\ reply.body.id \in DOMAIN Table
        /\ Table[reply.body.id].id = reply.body.id
        /\ reply.req.payload.v.id \in Range(SubSeq(hist.handed, 1, Len(hist.handed) - 1))
              => reply.body.id # reply.req.payload.v.id

\* a create whose payload carried the identifier of a song deleted before
\* has returned another identifier, the third the store handed out
C12_Witness ==
    /\ Created
    /\ reply.op = "create_song"
    /\ reply.req.payload.v.id \in hist.deleted
    /\ reply.body.id # reply.req.payload.v.id
    /\ Len(hist.handed) = MaxRows
    /\ Cardinality(DOMAIN songs) < Len(hist.handed)

\* the step answers a delete_song or delete_concert call for a well-formed name
AnswersDelete ==
    /\ reply.op = "none"
    /\ reply'.op \in {"delete_song", "delete_concert"}
    /\ parse_id(reply'.req.name).ok

\* the step answers a delete_participation call for a well-formed name
AnswersDeleteParticipation ==
    /\ reply.op = "none"
    /\ reply'.op = "delete_participation"
    /\ parse_participation_name(reply'.req.name).ok

\* the row a participation name stands for
Key(name) ==
    LET key == parse_participation_name(name)
    IN  [song_id |-> key.song_id, person_id |-> key.tg_id, role |-> key.role_title]

C39_OneDeleteSucceeds ==
    [][/\ AnswersDelete
       /\ reply'.fail = ""
       /\ parse_id(reply'.req.name).id \in DOMAIN Table \cup hist.deleted
       => LET id == parse_id(reply'.req.name).id
          IN  /\ reply'.status = "OK" <=> id \notin hist.deleted
              /\ reply'.status = "NotFound" <=> id \in hist.deleted
              /\ id \notin DOMAIN Table'
              /\ id \in hist'.deleted]_vars

\* a delete_concert of a concert that a delete removed before is answered
\* NotFound while another concert is stored
C39_Witness ==
    /\ reply.op = "delete_concert"
    /\ reply.fail = ""
    /\ reply.status = "NotFound"
    /\ parse_id(reply.req.name).id \in hist.deleted
    /\ DOMAIN concerts # {}

\* the reply is that of a list call
Listed == reply.op \in {"list_songs", "list_concerts", "list_participations"}

\* the number of rows in the table of the service
Rows == IF svc = "participation" THEN Cardinality(parts) ELSE Cardinality(DOMAIN Table)

\* the limit of a list call as claimed: 100 for a page size of 0 or less, else
\* the page size or 500, whichever is less
ClaimedLimit(page_size) ==
    IF page_size <= 0 THEN 100 ELSE IF page_size < 500 THEN page_size ELSE 500

\* C16: for the page size of every list call, of songs, concerts or
\* participations, the limit handed to the store is 100 when the page size is
\* 0 or less and the lesser of the page size and 500 otherwise, a number in
\* 1..500; the list that comes back has as many records as the table has rows
\* or as the limit allows, whichever is less: at most 100 for page size 0, at
\* most 500 for page size 10000.
C16_PageSizeClamped ==
    Listed =>
        LET limit == ClaimedLimit(reply.req.page_size)
        IN  /\ sanitize_page_size(reply.req.page_size) = limit
            /\ limit \in 1..500
            /\ reply.status = "OK" =>
                /\ Len(reply.body) <= limit
                /\ Len(reply.body) = IF Rows < limit THEN Rows ELSE limit
                /\ reply.req.page_size = 0 => Len(reply.body) <= 100
                /\ reply.req.page_size = 10000 => Len(reply.body) <= 500

\* a list_songs call with a page size below the number of songs stored got
\* that many songs, not all
C16_Witness ==
    /\ reply.op = "list_songs"
    /\ reply.status = "OK"
    /\ reply.req.page_size > 1
    /\ reply.req.page_size < Cardinality(DOMAIN songs)
    /\ Len(reply.body) = reply.req.page_size

\* the list of a list_songs or list_concerts reply is the first rows of the
\* table in ascending order of identifier
FirstById ==
    /\ \A k \in 1..Len(reply.body) :
        /\ reply.body[k].id \in DOMAIN Table
        /\ reply.body[k] = IF svc = "song" THEN record_to_song(songs[reply.body[k].id])
                           ELSE record_to_concert(concerts[reply.body[k].id])
    /\ \A j, k \in 1..Len(reply.body) : j < k => reply.body[j].id < reply.body[k].id
    /\ \A i \in DOMAIN Table :
        (\A k \in 1..Len(reply.body) : reply.body[k].id # i) =>
            \A k \in 1..Len(reply.body) : reply.body[k].id < i

\* the list of a list_participations reply holds rows of the table, each
\* once, in ascending order of song and person
FirstByKey ==
    /\ \A k \in 1..Len(reply.body) :
        [song_id |-> reply.body[k].song_id, person_id |-> reply.body[k].tg_id,
         role |-> reply.body[k].role_title] \in parts
    /\ \A j, k \in 1..Len(reply.body) :
        j < k =>
            /\ reply.body[j] # reply.body[k]
            /\ \/ reply.body[j].song_id < reply.body[k].song_id
               \/ /\ reply.body[j].song_id = reply.body[k].song_id
                  /\ reply.body[j].tg_id <= reply.body[k].tg_id

\* another list call with the same page size, made now, returns the same list
SameAgain ==
    IF reply.op = "list_songs"
    THEN list_songs(reply.req.page_size, "").body = reply.body
    ELSE IF reply.op = "list_concerts"
    THEN list_concerts(reply.req.page_size, "").body = reply.body
    ELSE \A rows \in ParticipationOrders :
            list_participations(reply.req.page_size, rows, "").body = reply.body

\* C17, as claimed: a list call that is answered OK returns the first
\* min(limit, n) records of the table in ascending order of identifier, and a
\* second list call with the same limit and no write in between returns the
\* same sequence, for songs, concerts and participations.
C17_ListOrderedAndRepeatable ==
    Listed /\ reply.status = "OK" =>
        /\ Len(reply.body) = IF Rows < ClaimedLimit(reply.req.page_size) THEN Rows
                             ELSE ClaimedLimit(reply.req.page_size)
        /\ IF svc = "participation" THEN FirstByKey ELSE FirstById
        /\ SameAgain

====
